---- MODULE Spec2Model ----
(***************************************************************************)
(* SUGARBEAR step sequencer: the Scheduler (lookahead polling clock) and   *)
(* the Sequencer (transport state machine, Pattern edits, tick handling).  *)
(*                                                                         *)
(* Number representation                                                   *)
(*   audio-clock seconds : integers, 1/320 s each (UnitsPerSecond = 320)   *)
(*   beats               : integer multiples of 1/8 beat (BeatScale = 8)   *)
(*   volume / velocity   : integer multiples of 1/100 (GainScale = 100)    *)
(*   trigger gain        : integer multiples of 1/10000 (GainScale^2)      *)
(* The audio clock is read at multiples of 1/16 s (ClockStep = 20 units),  *)
(* and the tempi are divisors of 480, so that 60/bpm/4 seconds is a whole  *)
(* multiple of 1/32 s.  Every clock reading, note time and beat the        *)
(* program computes from these inputs is then a dyadic rational that an    *)
(* IEEE double holds exactly, and the integer arithmetic below gives what  *)
(* the double arithmetic of the program gives.  The lookahead of 0.1 s     *)
(* (32 units) is not a multiple of the clock step: currentTime + 0.1 lies  *)
(* 2 units or more from every note time, far beyond the rounding of the    *)
(* sum, so `nextNoteTime < currentTime + lookahead` is decided alike.      *)
(***************************************************************************)
EXTENDS Integers, Sequences, FiniteSets, TLC

\* ---------------------------------------------------------------- bounds
MaxTime == 3        \* the audio clock is observed for this many clock steps
MaxEdits == 1       \* number of Pattern edit calls in one behaviour
MaxCalls == 2       \* number of Pattern Model helper calls in one behaviour
MaxLoads == 2       \* number of load() calls that start a fetch in one behaviour

\* ------------------------------------------------------- program constants
UnitsPerSecond == 320
ClockStep == 20              \* the clock is read every 1/16 s
BeatScale == 8
GainScale == 100
LOOKAHEAD_TIME == 32         \* AUDIO.LOOKAHEAD_TIME = 0.1 s
DEFAULT_BPM == 120           \* createBPM(120)
MIN_BPM == 60                \* lower bound in bpm()
MAX_BPM == 200               \* upper bound in bpm()
STEPS_PER_BEAT == 4          \* DEFAULT_CONFIG.stepsPerBeat
DEFAULT_STEPS == 16          \* createTrack / createPattern default length
DEFAULT_VOLUME == 80         \* createTrack: params.volume || 0.8
DEFAULT_MAX_STEPS == 16      \* stepIndex: maxSteps = 16

Min(a, b) == IF a < b THEN a ELSE b
Max(a, b) == IF a > b THEN a ELSE b

\* Math.floor(x / y) for y > 0 (TLA+ \div already rounds toward -infinity)
Floor(x, y) == x \div y

\* A variant of gainValue that returns its argument
gainValueUnclamped(value) == value

\* gainValue(value): Math.max(0, Math.min(1, value)), on the 1/10000 grid
gainValue(value) == Max(0, Min(GainScale * GainScale, value))

\* ------------------------------------------------------------ Pattern model
createStep(active, velocity) == [active |-> active, velocity |-> velocity]

createTrack(id, sampleId, steps) ==
  [id |-> id, sampleId |-> sampleId, steps |-> steps,
   volume |-> DEFAULT_VOLUME, muted |-> FALSE, soloed |-> FALSE]

createPattern(id, tracks, length) ==
  [id |-> id, tracks |-> tracks, length |-> length, modifiedAt |-> 0]

\* The Pattern of Sequencer.test.ts: kick on steps 0 and 8, snare on 4 and 12
kickSteps == [i \in 1..DEFAULT_STEPS |-> createStep(i - 1 \in {0, 8}, 90)]
snareSteps == [i \in 1..DEFAULT_STEPS |-> createStep(i - 1 \in {4, 12}, 80)]
testPattern ==
  createPattern("test",
                <<createTrack("kick", "kick", kickSteps),
                  createTrack("snare", "snare", snareSteps)>>,
                DEFAULT_STEPS)

\* A 3-step Pattern; track b carries only 2 steps (steps[2] is undefined)
patternA ==
  createPattern("A",
                <<createTrack("a", "sA", <<createStep(TRUE, 90), createStep(TRUE, 50),
                                           createStep(FALSE, 80)>>),
                  createTrack("b", "sB", <<createStep(TRUE, 80), createStep(FALSE, 80)>>)>>,
                3)

\* A 2-step Pattern that arrives with mix flags already set:
\* track a soloed, track b muted
patternFlags ==
  createPattern("F",
                <<[createTrack("a", "sA", <<createStep(TRUE, 90), createStep(FALSE, 80)>>)
                     EXCEPT !.soloed = TRUE],
                  [createTrack("b", "sB", <<createStep(TRUE, 80), createStep(TRUE, 80)>>)
                     EXCEPT !.muted = TRUE]>>,
                2)

PatternInputs == {testPattern, patternA, patternFlags}
TrackIdInputs == {"a", "b", "nope"}
StepIndexInputs == {0}
VolumeInputs == {50, 150}
VelocityInputs == {50, -50}
TempoInputs == {120, 160}
BeatInputs == {0, 1, 2, 8, 16, 24, 32}
TimeInputs == {0, UnitsPerSecond}
\* Tick callbacks a client registers with Scheduler.start on its own
\* "hThrows" throws on every invocation past the first tick of a run
ThrowingHandler == "hThrows"
\* "hStops" calls scheduler.stop() on every invocation past the first tick
StoppingHandler == "hStops"
HandlerInputs == {"h1", "h2", ThrowingHandler, StoppingHandler}
\* Numbers a client turns into a tempo
RawTempoInputs == {30, 120, 160}
\* Arguments of direct calls of the Pattern Model helpers
StepIndexArgs == {-1, 0, 2, 15, 16, 32}
MaxStepsArgs == {<<>>, <<2>>}   \* <<>>: argument omitted
StepIdxArgs == {-1, 0}
TrackIdArgs == {"a", "nope"}
VelocityArgs == {50}
TrackArgs == {createTrack("c", "sC", <<createStep(TRUE, 80)>>)}


\* ------------------------------------------------------------------- state
VARIABLES
  now,             \* AudioContext.currentTime / IAudioEngine.currentTime
  timers,          \* ids of the live window.setInterval registrations
  scheduler,       \* the IScheduler the Sequencer was constructed with: its
                   \*   class (impl) and its fields bpm, isRunning, intervalId,
                   \*   callback, currentBeat, nextNoteTime
  pattern,         \* Sequencer._pattern: <<>> for null, <<p>> for a Pattern p
  transportState,  \* Sequencer._transportState
  currentStep,     \* Sequencer._currentStep
  soloedTracks,    \* Sequencer._soloedTracks
  ticks,           \* tick-handler invocations made by the last event, in order
  run,             \* history of the current Scheduler run: t0, ticks, tempoHeld,
                   \* lastStep (the cursor after the run's last tick)
  edits,           \* number of Pattern edit calls made so far
  wallClock,       \* what the last new Date() read, in wall-clock steps
  lastCall,        \* the call the last event made directly on the Scheduler
  result,          \* the last direct call of a Pattern Model helper: op, args, out
  heap,            \* the Pattern, array, Track and Step objects allocated so far
                   \*   (cells), and the references held to Patterns among them
  sm               \* SampleManager: _samples, _loadStatus, the load() calls in
                   \*   flight, and the history of its calls

vars == <<now, timers, scheduler, pattern, transportState, currentStep,
          soloedTracks, ticks, run, edits, wallClock, lastCall, result,
          heap, sm>>

NoTimer == 0
NoCallback == "null"
SeqCallback == "sequencer"   \* (time, beat) => this._onSchedulerTick(time, beat)

Stopped == [status |-> "stopped"]
Playing(startTime) == [status |-> "playing", startBeat |-> 0, startTime |-> startTime]
Paused(pausedBeat) == [status |-> "paused", pausedBeat |-> pausedBeat]

\* No direct call on the Scheduler: the event was a Sequencer call, a poll or
\* a clock advance
NoCall == "none"

\* No Pattern Model helper has been called directly
NoResult == [op |-> "none"]

\* Sample ids and URLs handed to SampleManager.load
SampleIdInputs == {"kick", "snare"}
UrlInputs == {"/samples/kick.wav"}

\* _loadStatus.get(id) ?? { status: 'idle' }; progress in percent
Idle == [status |-> "idle"]
Loading(progress) == [status |-> "loading", progress |-> progress]
Loaded(sample) == [status |-> "loaded", sample |-> sample]
Failed == [status |-> "error"]

\* No sample cached (0 is undefined; a sample object is named by the ordinal
\* of the load() that created it), no status entry, no load in flight.
\* History: started counts the fetches issued, last is the outcome of the
\* last SampleManager event, removed[id] holds from remove(id) / clear()
\* until the next load(id) starts, resolved[id] is the first sample a load(id)
\* resolved with since the last remove(id) / clear().
NoOutcome == [op |-> "none", id |-> "", outcome |-> "", sample |-> 0]
NewSampleManager ==
  [samples |-> [id \in SampleIdInputs |-> 0],
   status |-> [id \in SampleIdInputs |-> Idle],
   loads |-> {},
   started |-> 0,
   last |-> NoOutcome,
   removed |-> [id \in SampleIdInputs |-> FALSE],
   resolved |-> [id \in SampleIdInputs |-> 0]]

\* No object allocated; 0 is the null reference
EmptyHeap == [cells |-> <<>>, root |-> 0, last |-> 0, held |-> 0, spare |-> 0]

HasPattern == pattern # <<>>

\* new Date(): the wall clock reads what it read for the previous Date, or
\* has moved on since (Date has millisecond resolution, so two calls can get
\* equal timestamps).  The Patterns a caller builds carry the reading 0.
NewDate == {wallClock, wallClock + 1}

\* new Scheduler(context): the Scheduler of audio/Scheduler
NewScheduler ==
  [impl |-> "Scheduler", bpm |-> DEFAULT_BPM, isRunning |-> FALSE,
   intervalId |-> NoTimer, callback |-> NoCallback, currentBeat |-> 0,
   nextNoteTime |-> 0]

\* Everything but the Scheduler, after construction
InitRest ==
  /\ now = 0
  /\ timers = {}
  /\ pattern = <<>>
  /\ transportState = Stopped
  /\ currentStep = 0
  /\ soloedTracks = {}
  /\ ticks = <<>>
  /\ run = [t0 |-> 0, ticks |-> 0, tempoHeld |-> TRUE, lastStep |-> 0]
  /\ edits = 0
  /\ wallClock = 0
  /\ lastCall = NoCall
  /\ result = NoResult
  /\ heap = EmptyHeap
  /\ sm = NewSampleManager

\* new Sequencer(audioEngine, new Scheduler(context))
Init == scheduler = NewScheduler /\ InitRest

\* new Sequencer(audioEngine, new MockScheduler()), the beforeEach of
\* Sequencer.test.ts.  The MockScheduler has no timer and no next note time
\* (_tempo = 120, _currentBeat = 0, _callback = null)
InitMock == scheduler = [NewScheduler EXCEPT !.impl = "MockScheduler"] /\ InitRest

\* ------------------------------------------------------- Sequencer: ticking
\* Variants of the for-loop: one stamps the voice with the clock instead of the
\* tick's time, one lets a soloed track through the mute check
RECURSIVE ProcessTracksClockTime(_, _, _, _, _)
ProcessTracksClockTime(tracks, i, step, hasSoloedTracks, time) ==
  IF i > Len(tracks) THEN <<>>
  ELSE
    LET track == tracks[i]
        rest == ProcessTracksClockTime(tracks, i + 1, step, hasSoloedTracks, time)
    IN IF track.muted THEN rest
       ELSE IF hasSoloedTracks /\ ~track.soloed THEN rest
       ELSE IF (step + 1) \notin DOMAIN track.steps THEN rest
       ELSE IF ~track.steps[step + 1].active THEN rest
       ELSE <<[sampleId |-> track.sampleId,
               startTime |-> now,
               gain |-> gainValue(track.volume * track.steps[step + 1].velocity)]>>
            \o rest

RECURSIVE ProcessTracksSoloFirst(_, _, _, _, _)
ProcessTracksSoloFirst(tracks, i, step, hasSoloedTracks, time) ==
  IF i > Len(tracks) THEN <<>>
  ELSE
    LET track == tracks[i]
        rest == ProcessTracksSoloFirst(tracks, i + 1, step, hasSoloedTracks, time)
    IN IF track.muted /\ ~track.soloed THEN rest
       ELSE IF hasSoloedTracks /\ ~track.soloed THEN rest
       ELSE IF (step + 1) \notin DOMAIN track.steps THEN rest
       ELSE IF ~track.steps[step + 1].active THEN rest
       ELSE <<[sampleId |-> track.sampleId,
               startTime |-> time,
               gain |-> gainValue(track.volume * track.steps[step + 1].velocity)]>>
            \o rest

\* The for-loop of _onSchedulerTick over pattern.tracks, from track i on:
\* the playVoice calls it makes, in order.
RECURSIVE ProcessTracks(_, _, _, _, _)
ProcessTracks(tracks, i, step, hasSoloedTracks, time) ==
  IF i > Len(tracks) THEN <<>>
  ELSE
    LET track == tracks[i]
        rest == ProcessTracks(tracks, i + 1, step, hasSoloedTracks, time)
    IN IF track.muted THEN rest
       ELSE IF hasSoloedTracks /\ ~track.soloed THEN rest
       ELSE IF (step + 1) \notin DOMAIN track.steps THEN rest
       ELSE IF ~track.steps[step + 1].active THEN rest
       ELSE <<[sampleId |-> track.sampleId,
               startTime |-> time,
               gain |-> gainValue(track.volume * track.steps[step + 1].velocity)]>>
            \o rest

\* A variant that takes the beat number itself for the step
StepOfBeatUnscaled(beat, length) == Floor(beat, BeatScale) % length

\* Math.floor(beat * stepsPerBeat) % pattern.length
StepOfBeat(beat, length) == Floor(beat * STEPS_PER_BEAT, BeatScale) % length

\* A variant of _onSchedulerTick that does not look at the transport state
OnSchedulerTickAnyStatus(pat, ts, solo, cur, time, beat) ==
  IF pat = <<>>
  THEN [currentStep |-> cur, voices |-> <<>>]
  ELSE LET step == StepOfBeat(beat, pat[1].length)
       IN [currentStep |-> step,
           voices |-> ProcessTracks(pat[1].tracks, 1, step, solo # {}, time)]

\* A variant of _onSchedulerTick that takes every track but the first from the
\* Pattern as it was loaded, before any edit
OnSchedulerTickStale(pat, ts, solo, cur, time, beat) ==
  IF pat = <<>> \/ ts.status # "playing"
  THEN [currentStep |-> cur, voices |-> <<>>]
  ELSE LET step == StepOfBeat(beat, pat[1].length)
           loaded == CHOOSE q \in PatternInputs : q.id = pat[1].id
           mixed == [n \in DOMAIN pat[1].tracks |->
                       IF n = 1 THEN pat[1].tracks[n] ELSE loaded.tracks[n]]
       IN [currentStep |-> step,
           voices |-> ProcessTracks(mixed, 1, step, solo # {}, time)]

\* _onSchedulerTick(time, beat) against the Sequencer state (pat, ts, solo, cur):
\* the new currentStep and the voices played.
OnSchedulerTick(pat, ts, solo, cur, time, beat) ==
  IF pat = <<>> \/ ts.status # "playing"
  THEN [currentStep |-> cur, voices |-> <<>>]
  ELSE LET step == StepOfBeat(beat, pat[1].length)
       IN [currentStep |-> step,
           voices |-> ProcessTracks(pat[1].tracks, 1, step, solo # {}, time)]

\* What one handler invocation leaves in the log
TickRecord(k, time, beat, cur, res) ==
  [k |-> k, time |-> time, beat |-> beat, at |-> now,
   pattern |-> pattern, solo |-> soloedTracks, status |-> transportState.status,
   stepBefore |-> cur, step |-> res.currentStep, voices |-> res.voices]

\* ---------------------------------------------------------------- Scheduler
\* A variant that divides by 8: the length of a thirty-second note
SecondsPerThirtySecond(bpm) == ((60 * UnitsPerSecond) \div bpm) \div 8

\* 60.0 / bpm / 4 seconds
SecondsPerSixteenth(bpm) == ((60 * UnitsPerSecond) \div bpm) \div 4

\* A variant of _advanceNote that rebases a late tick on the clock
AdvanceNoteRebased(s) ==
  [s EXCEPT !.nextNoteTime = Max(s.nextNoteTime, now) + SecondsPerSixteenth(s.bpm),
            !.currentBeat = s.currentBeat + BeatScale \div 4]

\* _advanceNote()
AdvanceNote(s) ==
  [s EXCEPT !.nextNoteTime = s.nextNoteTime + SecondsPerSixteenth(s.bpm),
            !.currentBeat = s.currentBeat + BeatScale \div 4]

\* A variant of stop() that clears the interval but keeps the running flag and
\* the callback
SchedulerStopKeepsCallback(s) ==
  IF ~s.isRunning THEN s
  ELSE [s EXCEPT !.intervalId = NoTimer, !.currentBeat = 0, !.nextNoteTime = 0]

\* Scheduler.stop()
SchedulerStop(s) ==
  IF ~s.isRunning THEN s
  ELSE [s EXCEPT !.isRunning = FALSE, !.intervalId = NoTimer,
                 !.callback = NoCallback, !.currentBeat = 0, !.nextNoteTime = 0]

\* this._callback(time, beat): the Sequencer's arrow function runs
\* _onSchedulerTick; a client's own handler leaves the Sequencer alone, and
\* may throw (threw) or call scheduler.stop() (stops)
InvokeCallback(callback, cur, time, beat) ==
  IF callback = SeqCallback
  THEN LET res == OnSchedulerTick(pattern, transportState, soloedTracks, cur,
                                  time, beat)
       IN [currentStep |-> res.currentStep, voices |-> res.voices, threw |-> FALSE,
           stops |-> FALSE]
  ELSE [currentStep |-> cur, voices |-> <<>>,
        threw |-> callback = ThrowingHandler /\ beat > 0,
        stops |-> callback = StoppingHandler /\ beat > 0]

\* The Scheduler as the callback leaves it
AfterCallback(s, res) == IF res.stops THEN SchedulerStop(s) ELSE s

\* A variant of the loop that delivers at most one tick per poll (if for while)
ScheduleLoopOnce(st, lookaheadEndTime) ==
  IF st.s.nextNoteTime < lookaheadEndTime
  THEN LET res == InvokeCallback(st.s.callback, st.cur,
                                 st.s.nextNoteTime, st.s.currentBeat)
           rec == TickRecord(st.k, st.s.nextNoteTime, st.s.currentBeat, st.cur, res)
       IN IF res.threw
          THEN [st EXCEPT !.cur = res.currentStep, !.log = Append(st.log, rec)]
          ELSE [s |-> AdvanceNote(AfterCallback(st.s, res)), cur |-> res.currentStep,
                log |-> Append(st.log, rec), k |-> st.k + 1]
  ELSE st

\* A variant of the loop that catches a throwing callback and goes on to the
\* next note
RECURSIVE ScheduleLoopSkipsFailed(_, _)
ScheduleLoopSkipsFailed(st, lookaheadEndTime) ==
  IF st.s.nextNoteTime < lookaheadEndTime /\ st.s.callback # NoCallback
  THEN LET res == InvokeCallback(st.s.callback, st.cur,
                                 st.s.nextNoteTime, st.s.currentBeat)
           rec == TickRecord(st.k, st.s.nextNoteTime, st.s.currentBeat, st.cur, res)
       IN ScheduleLoopSkipsFailed([s |-> AdvanceNote(AfterCallback(st.s, res)), cur |-> res.currentStep,
                                   log |-> Append(st.log, rec), k |-> st.k + 1],
                                  lookaheadEndTime)
  ELSE st

\* A variant of the loop that looks one clock step beyond the lookahead
\* window
RECURSIVE ScheduleLoopFurther(_, _)
ScheduleLoopFurther(st, lookaheadEndTime) ==
  IF st.s.nextNoteTime < lookaheadEndTime + ClockStep /\ st.s.callback # NoCallback
  THEN LET res == InvokeCallback(st.s.callback, st.cur,
                                 st.s.nextNoteTime, st.s.currentBeat)
           rec == TickRecord(st.k, st.s.nextNoteTime, st.s.currentBeat, st.cur, res)
       IN IF res.threw
          THEN [st EXCEPT !.cur = res.currentStep, !.log = Append(st.log, rec)]
          ELSE ScheduleLoopFurther([s |-> AdvanceNote(AfterCallback(st.s, res)),
                                    cur |-> res.currentStep,
                                    log |-> Append(st.log, rec), k |-> st.k + 1],
                                   lookaheadEndTime)
  ELSE st

\* The while loop of _scheduleLoop.  st carries the Scheduler (s), the
\* Sequencer's step cursor (cur), the log (log) and the run's tick count (k).
\* A callback that throws ends the loop before _advanceNote().
\* Once the callback has been cleared, this._callback(...) is a call of null:
\* the TypeError ends the loop.
RECURSIVE ScheduleLoop(_, _)
ScheduleLoop(st, lookaheadEndTime) ==
  IF st.s.nextNoteTime < lookaheadEndTime /\ st.s.callback # NoCallback
  THEN LET res == InvokeCallback(st.s.callback, st.cur,
                                 st.s.nextNoteTime, st.s.currentBeat)
           rec == TickRecord(st.k, st.s.nextNoteTime, st.s.currentBeat, st.cur, res)
       IN IF res.threw
          THEN [st EXCEPT !.cur = res.currentStep, !.log = Append(st.log, rec)]
          ELSE ScheduleLoop([s |-> AdvanceNote(AfterCallback(st.s, res)), cur |-> res.currentStep,
                             log |-> Append(st.log, rec), k |-> st.k + 1],
                            lookaheadEndTime)
  ELSE st

\* window.setInterval: a fresh id
FreshTimer == CHOOSE id \in 1..(Cardinality(timers) + 1) : id \notin timers

\* A variant of start() without the `if (this._isRunning)` guard
SchedulerStartAlways(s, callback, t, id) ==
  [s EXCEPT !.callback = callback, !.isRunning = TRUE, !.currentBeat = 0,
            !.nextNoteTime = t, !.intervalId = id]

\* Scheduler.start(callback) at clock reading t, with timer id
SchedulerStart(s, callback, t, id) ==
  IF s.isRunning THEN s
  ELSE [s EXCEPT !.callback = callback, !.isRunning = TRUE, !.currentBeat = 0,
                 !.nextNoteTime = t, !.intervalId = id]

\* MockScheduler.start(callback), MockScheduler.stop()
MockStart(s, callback) == [s EXCEPT !.isRunning = TRUE, !.callback = callback]
MockStop(s) == [s EXCEPT !.isRunning = FALSE, !.callback = NoCallback]

\* this._scheduler.start(callback) and this._scheduler.stop() in the
\* Sequencer: the method of the IScheduler it holds
StartOf(s, callback, t, id) ==
  IF s.impl = "MockScheduler" THEN MockStart(s, callback)
  ELSE SchedulerStart(s, callback, t, id)
StopOf(s) == IF s.impl = "MockScheduler" THEN MockStop(s) ELSE SchedulerStop(s)

\* The live timers once start() has returned: only Scheduler.start on an
\* idle Scheduler registers one
TimersAfterStart(s, id) ==
  IF s.impl = "MockScheduler" \/ s.isRunning THEN timers ELSE timers \cup {id}

\* window.clearInterval(s.intervalId) as done by Scheduler.stop()
TimersAfterStop(s) ==
  IF s.isRunning /\ s.intervalId # NoTimer THEN timers \ {s.intervalId} ELSE timers

\* The run history once Scheduler.stop() has ended the run
NoRun == [t0 |-> 0, ticks |-> 0, tempoHeld |-> TRUE, lastStep |-> 0]
RunAfterStop(s) == IF s.isRunning THEN NoRun ELSE run

\* A variant of setTempo() that moves the pending tick onto the new grid
SchedulerSetTempoRetimes(s, newBPM) ==
  [s EXCEPT !.bpm = newBPM,
            !.nextNoteTime = IF s.isRunning /\ s.currentBeat > 0
                             THEN s.nextNoteTime - SecondsPerSixteenth(s.bpm)
                                    + SecondsPerSixteenth(newBPM)
                             ELSE s.nextNoteTime]

\* Scheduler.setTempo(newBPM)
SchedulerSetTempo(s, newBPM) == [s EXCEPT !.bpm = newBPM]

\* Scheduler.reset() at clock reading t
SchedulerReset(s, t) == [s EXCEPT !.currentBeat = 0, !.nextNoteTime = t]


\* ------------------------------------------------------------------ tempo
\* bpm(value): Math.max(60, Math.min(200, value))
bpm(value) == Max(MIN_BPM, Min(MAX_BPM, value))

\* ------------------------------------------------- Sequencer: Pattern edits
\* Each is the body of the Sequencer method after its `if (!this._pattern)`
\* guard: the Pattern swapped in for Pattern p.
SeqToggleMute(p, trackId, date) ==
  [p EXCEPT !.tracks = [i \in DOMAIN p.tracks |->
                          IF p.tracks[i].id = trackId
                          THEN [p.tracks[i] EXCEPT !.muted = ~p.tracks[i].muted]
                          ELSE p.tracks[i]],
            !.modifiedAt = date]

\* A variant of the toggleSolo body that sets the flag instead of flipping it
SeqToggleSoloSets(p, trackId, date) ==
  [p EXCEPT !.tracks = [i \in DOMAIN p.tracks |->
                          IF p.tracks[i].id = trackId
                          THEN [p.tracks[i] EXCEPT !.soloed = TRUE]
                          ELSE p.tracks[i]],
            !.modifiedAt = date]

SeqToggleSolo(p, trackId, date) ==
  [p EXCEPT !.tracks = [i \in DOMAIN p.tracks |->
                          IF p.tracks[i].id = trackId
                          THEN [p.tracks[i] EXCEPT !.soloed = ~p.tracks[i].soloed]
                          ELSE p.tracks[i]],
            !.modifiedAt = date]

SeqSetTrackVolume(p, trackId, volume, date) ==
  [p EXCEPT !.tracks = [i \in DOMAIN p.tracks |->
                          IF p.tracks[i].id = trackId
                          THEN [p.tracks[i] EXCEPT !.volume = volume]
                          ELSE p.tracks[i]],
            !.modifiedAt = date]

SeqToggleStep(p, trackId, stepIndex, date) ==
  [p EXCEPT !.tracks = [i \in DOMAIN p.tracks |->
                          IF p.tracks[i].id # trackId THEN p.tracks[i]
                          ELSE [p.tracks[i] EXCEPT !.steps =
                                  [idx \in DOMAIN p.tracks[i].steps |->
                                     IF idx - 1 = stepIndex
                                     THEN [p.tracks[i].steps[idx] EXCEPT
                                             !.active = ~p.tracks[i].steps[idx].active]
                                     ELSE p.tracks[i].steps[idx]]]],
            !.modifiedAt = date]

SeqSetStepVelocity(p, trackId, stepIndex, velocity, date) ==
  [p EXCEPT !.tracks = [i \in DOMAIN p.tracks |->
                          IF p.tracks[i].id # trackId THEN p.tracks[i]
                          ELSE [p.tracks[i] EXCEPT !.steps =
                                  [idx \in DOMAIN p.tracks[i].steps |->
                                     IF idx - 1 = stepIndex
                                     THEN [p.tracks[i].steps[idx] EXCEPT
                                             !.velocity = velocity]
                                     ELSE p.tracks[i].steps[idx]]]],
            !.modifiedAt = date]

\* this._pattern.tracks.find(t => t.id === trackId): its index, 0 if none
FindTrack(p, trackId) ==
  IF \E i \in DOMAIN p.tracks : p.tracks[i].id = trackId
  THEN CHOOSE i \in DOMAIN p.tracks :
         /\ p.tracks[i].id = trackId
         /\ \A j \in DOMAIN p.tracks : p.tracks[j].id = trackId => i <= j
  ELSE 0

\* The solo-set after toggleSolo(trackId) found track number i
SoloSetAfterToggle(p, i, trackId) ==
  IF p.tracks[i].soloed THEN soloedTracks \ {trackId} ELSE soloedTracks \cup {trackId}

Quiet == /\ ticks' = <<>> /\ lastCall' = NoCall /\ result' = result /\ heap' = heap /\ sm' = sm
SchedulerUnchanged == UNCHANGED <<timers, scheduler, run>>
TransportUnchanged == UNCHANGED <<transportState, currentStep>>

\* A variant of setPattern() that also rewinds the Scheduler (scheduler.reset())
SetPatternRewinds ==
  \E p \in PatternInputs :
    /\ pattern' = <<p>>
    /\ currentStep' = 0
    /\ scheduler' = SchedulerReset(scheduler, now)
    /\ Quiet
    /\ UNCHANGED <<timers, run>>
    /\ UNCHANGED <<now, transportState, soloedTracks, edits, wallClock>>

\* A variant of setPattern() that leaves the step cursor where it is
SetPatternKeepsStep ==
  \E p \in PatternInputs :
    /\ pattern' = <<p>>
    /\ Quiet
    /\ SchedulerUnchanged
    /\ UNCHANGED <<now, transportState, currentStep, soloedTracks, edits, wallClock>>

\* Sequencer.setPattern(pattern)
SetPattern ==
  \E p \in PatternInputs :
    /\ pattern' = <<p>>
    /\ currentStep' = 0
    /\ Quiet
    /\ SchedulerUnchanged
    /\ UNCHANGED <<now, transportState, soloedTracks, edits, wallClock>>

\* Sequencer.toggleMute(trackId)
ToggleMuteOf(trackId) ==
  /\ edits < MaxEdits
  /\ edits' = edits + 1
  /\ IF HasPattern
     THEN \E date \in NewDate :
            /\ pattern' = <<SeqToggleMute(pattern[1], trackId, date)>>
            /\ wallClock' = date
     ELSE UNCHANGED <<pattern, wallClock>>
  /\ Quiet
  /\ SchedulerUnchanged
  /\ TransportUnchanged
  /\ UNCHANGED <<now, soloedTracks>>

\* Sequencer.toggleSolo(trackId)
ToggleSoloOf(trackId) ==
  /\ edits < MaxEdits
  /\ edits' = edits + 1
  /\ IF HasPattern /\ FindTrack(pattern[1], trackId) # 0
     THEN \E date \in NewDate :
            /\ soloedTracks' =
                 SoloSetAfterToggle(pattern[1], FindTrack(pattern[1], trackId), trackId)
            /\ pattern' = <<SeqToggleSolo(pattern[1], trackId, date)>>
            /\ wallClock' = date
     ELSE UNCHANGED <<pattern, soloedTracks, wallClock>>
  /\ Quiet
  /\ SchedulerUnchanged
  /\ TransportUnchanged
  /\ UNCHANGED now

\* Sequencer.setTrackVolume(trackId, volume)
SetTrackVolumeOf(trackId, volume) ==
  /\ edits < MaxEdits
  /\ edits' = edits + 1
  /\ IF HasPattern
     THEN \E date \in NewDate :
            /\ pattern' = <<SeqSetTrackVolume(pattern[1], trackId, volume, date)>>
            /\ wallClock' = date
     ELSE UNCHANGED <<pattern, wallClock>>
  /\ Quiet
  /\ SchedulerUnchanged
  /\ TransportUnchanged
  /\ UNCHANGED <<now, soloedTracks>>

\* Sequencer.toggleStep(trackId, stepIndex)
ToggleStepOf(trackId, stepIndex) ==
  /\ edits < MaxEdits
  /\ edits' = edits + 1
  /\ IF HasPattern
     THEN \E date \in NewDate :
            /\ pattern' = <<SeqToggleStep(pattern[1], trackId, stepIndex, date)>>
            /\ wallClock' = date
     ELSE UNCHANGED <<pattern, wallClock>>
  /\ Quiet
  /\ SchedulerUnchanged
  /\ TransportUnchanged
  /\ UNCHANGED <<now, soloedTracks>>

\* Sequencer.setStepVelocity(trackId, stepIndex, velocity)
SetStepVelocityOf(trackId, stepIndex, velocity) ==
  /\ edits < MaxEdits
  /\ edits' = edits + 1
  /\ IF HasPattern
     THEN \E date \in NewDate :
            /\ pattern' =
                 <<SeqSetStepVelocity(pattern[1], trackId, stepIndex, velocity, date)>>
            /\ wallClock' = date
     ELSE UNCHANGED <<pattern, wallClock>>
  /\ Quiet
  /\ SchedulerUnchanged
  /\ TransportUnchanged
  /\ UNCHANGED <<now, soloedTracks>>

\* The edit calls over the inputs
ToggleMute == \E trackId \in TrackIdInputs : ToggleMuteOf(trackId)

ToggleSolo == \E trackId \in TrackIdInputs : ToggleSoloOf(trackId)

SetTrackVolume ==
  \E trackId \in TrackIdInputs, volume \in VolumeInputs :
    SetTrackVolumeOf(trackId, volume)

ToggleStep ==
  \E trackId \in TrackIdInputs, stepIndex \in StepIndexInputs :
    ToggleStepOf(trackId, stepIndex)

SetStepVelocity ==
  \E trackId \in TrackIdInputs, stepIndex \in StepIndexInputs,
     velocity \in VelocityInputs :
    SetStepVelocityOf(trackId, stepIndex, velocity)

\* ---------------------------------------------------- Sequencer: transport
\* Sequencer.setTempo(newTempo)
SetTempo ==
  \E newTempo \in TempoInputs :
    /\ scheduler' = SchedulerSetTempo(scheduler, newTempo)
    /\ run' = IF scheduler.isRunning
              THEN [run EXCEPT !.tempoHeld = run.tempoHeld /\ newTempo = scheduler.bpm]
              ELSE run
    /\ Quiet
    /\ TransportUnchanged
    /\ UNCHANGED <<now, timers, pattern, soloedTracks, edits, wallClock>>

\* A variant of play() that starts the Scheduler at the paused beat
PlayResumes ==
  /\ IF transportState.status = "playing" \/ ~HasPattern
     THEN UNCHANGED <<transportState, scheduler, timers, run>>
     ELSE /\ transportState' = Playing(now)
          /\ scheduler' =
               [SchedulerStart(scheduler, SeqCallback, now, FreshTimer) EXCEPT
                  !.currentBeat = IF transportState.status = "paused"
                                  THEN transportState.pausedBeat ELSE 0]
          /\ timers' = IF scheduler.isRunning THEN timers ELSE timers \cup {FreshTimer}
          /\ run' = IF scheduler.isRunning THEN run
                    ELSE [t0 |-> now, ticks |-> 0, tempoHeld |-> TRUE, lastStep |-> 0]
  /\ Quiet
  /\ UNCHANGED <<now, pattern, currentStep, soloedTracks, edits, wallClock>>

\* A variant of play() without the `if (!this._pattern)` guard
PlayWithoutPattern ==
  /\ IF transportState.status = "playing"
     THEN UNCHANGED <<transportState, scheduler, timers, run>>
     ELSE /\ transportState' = Playing(now)
          /\ scheduler' = SchedulerStart(scheduler, SeqCallback, now, FreshTimer)
          /\ timers' = IF scheduler.isRunning THEN timers ELSE timers \cup {FreshTimer}
          /\ run' = IF scheduler.isRunning THEN run
                    ELSE [t0 |-> now, ticks |-> 0, tempoHeld |-> TRUE, lastStep |-> 0]
  /\ Quiet
  /\ UNCHANGED <<now, pattern, currentStep, soloedTracks, edits, wallClock>>

\* Sequencer.play()
Play ==
  /\ IF transportState.status = "playing" \/ ~HasPattern
     THEN UNCHANGED <<transportState, scheduler, timers, run>>
     ELSE /\ transportState' = Playing(now)
          /\ scheduler' = StartOf(scheduler, SeqCallback, now, FreshTimer)
          /\ timers' = TimersAfterStart(scheduler, FreshTimer)
          /\ run' = IF scheduler.isRunning THEN run
                    ELSE [t0 |-> now, ticks |-> 0, tempoHeld |-> TRUE, lastStep |-> 0]
  /\ Quiet
  /\ UNCHANGED <<now, pattern, currentStep, soloedTracks, edits, wallClock>>

\* A variant of pause() that rewinds the step cursor as stop() does
PauseResetsStep ==
  /\ IF transportState.status # "playing"
     THEN UNCHANGED <<transportState, scheduler, timers, run, currentStep>>
     ELSE /\ transportState' = Paused(scheduler.currentBeat)
          /\ scheduler' = SchedulerStop(scheduler)
          /\ timers' = TimersAfterStop(scheduler)
          /\ run' = RunAfterStop(scheduler)
          /\ currentStep' = 0
  /\ Quiet
  /\ UNCHANGED <<now, pattern, soloedTracks, edits, wallClock>>

\* A variant of pause() without the `status !== 'playing'` guard
PauseAnyStatus ==
  /\ transportState' = Paused(scheduler.currentBeat)
  /\ scheduler' = SchedulerStop(scheduler)
  /\ timers' = TimersAfterStop(scheduler)
  /\ run' = RunAfterStop(scheduler)
  /\ Quiet
  /\ UNCHANGED <<now, pattern, currentStep, soloedTracks, edits, wallClock>>

\* A variant of pause() that reads the beat after stopping the Scheduler
PauseReadsAfterStop ==
  /\ IF transportState.status # "playing"
     THEN UNCHANGED <<transportState, scheduler, timers, run>>
     ELSE /\ transportState' = Paused(SchedulerStop(scheduler).currentBeat)
          /\ scheduler' = SchedulerStop(scheduler)
          /\ timers' = TimersAfterStop(scheduler)
          /\ run' = RunAfterStop(scheduler)
  /\ Quiet
  /\ UNCHANGED <<now, pattern, currentStep, soloedTracks, edits, wallClock>>

\* A variant of pause() that forgets to stop the Scheduler
PauseLeavesSchedulerRunning ==
  /\ IF transportState.status # "playing"
     THEN UNCHANGED transportState
     ELSE transportState' = Paused(scheduler.currentBeat)
  /\ Quiet
  /\ UNCHANGED <<scheduler, timers, run>>
  /\ UNCHANGED <<now, pattern, currentStep, soloedTracks, edits, wallClock>>

\* Sequencer.pause()
Pause ==
  /\ IF transportState.status # "playing"
     THEN UNCHANGED <<transportState, scheduler, timers, run>>
     ELSE /\ transportState' = Paused(scheduler.currentBeat)
          /\ scheduler' = StopOf(scheduler)
          /\ timers' = TimersAfterStop(scheduler)
          /\ run' = RunAfterStop(scheduler)
  /\ Quiet
  /\ UNCHANGED <<now, pattern, currentStep, soloedTracks, edits, wallClock>>

\* A variant of stop() that leaves the step cursor where it is
StopKeepsStep ==
  /\ transportState' = Stopped
  /\ scheduler' = SchedulerStop(scheduler)
  /\ timers' = TimersAfterStop(scheduler)
  /\ run' = RunAfterStop(scheduler)
  /\ Quiet
  /\ UNCHANGED <<now, pattern, currentStep, soloedTracks, edits, wallClock>>

\* Sequencer.stop()
Stop ==
  /\ transportState' = Stopped
  /\ scheduler' = StopOf(scheduler)
  /\ timers' = TimersAfterStop(scheduler)
  /\ run' = RunAfterStop(scheduler)
  /\ currentStep' = 0
  /\ Quiet
  /\ UNCHANGED <<now, pattern, soloedTracks, edits, wallClock>>

\* A variant of destroy() without `this._soloedTracks.clear()`
DestroyKeepsSolo ==
  /\ transportState' = Stopped
  /\ scheduler' = SchedulerStop(scheduler)
  /\ timers' = TimersAfterStop(scheduler)
  /\ currentStep' = 0
  /\ pattern' = <<>>
  /\ run' = RunAfterStop(scheduler)
  /\ Quiet
  /\ UNCHANGED <<now, edits, wallClock, soloedTracks>>

\* Sequencer.destroy()
Destroy ==
  /\ transportState' = Stopped
  /\ scheduler' = StopOf(scheduler)
  /\ timers' = TimersAfterStop(scheduler)
  /\ currentStep' = 0
  /\ pattern' = <<>>
  /\ soloedTracks' = {}
  /\ run' = RunAfterStop(scheduler)
  /\ Quiet
  /\ UNCHANGED <<now, edits, wallClock>>

\* ------------------------------------------------- Pattern Model helpers
\* A variant of stepIndex that clamps into 0..maxSteps-1 instead of throwing
stepIndexClamps(value, maxSteps) ==
  LET m == IF maxSteps = <<>> THEN DEFAULT_MAX_STEPS ELSE maxSteps[1]
  IN [threw |-> FALSE, value |-> Max(0, Min(m - 1, value))]

\* stepIndex(value, maxSteps = 16); maxSteps is <<>> when omitted
stepIndex(value, maxSteps) ==
  LET m == IF maxSteps = <<>> THEN DEFAULT_MAX_STEPS ELSE maxSteps[1]
  IN IF value < 0 \/ value >= m
     THEN [threw |-> TRUE, value |-> 0]
     ELSE [threw |-> FALSE, value |-> value]

\* A variant of toggleStep that switches the step on instead of flipping it
toggleStepActivates(p, trackId, stepIdx, date) ==
  [p EXCEPT
     !.tracks = [k \in DOMAIN p.tracks |->
                   IF p.tracks[k].id = trackId
                   THEN [p.tracks[k] EXCEPT
                           !.steps = [idx \in DOMAIN p.tracks[k].steps |->
                                        IF idx - 1 = stepIdx
                                        THEN [p.tracks[k].steps[idx] EXCEPT
                                                !.active = TRUE]
                                        ELSE p.tracks[k].steps[idx]]]
                   ELSE p.tracks[k]],
     !.modifiedAt = date]

\* toggleStep(pattern, trackId, stepIdx)
toggleStep(p, trackId, stepIdx, date) ==
  [p EXCEPT
     !.tracks = [k \in DOMAIN p.tracks |->
                   IF p.tracks[k].id = trackId
                   THEN [p.tracks[k] EXCEPT
                           !.steps = [idx \in DOMAIN p.tracks[k].steps |->
                                        IF idx - 1 = stepIdx
                                        THEN [p.tracks[k].steps[idx] EXCEPT
                                                !.active = ~p.tracks[k].steps[idx].active]
                                        ELSE p.tracks[k].steps[idx]]]
                   ELSE p.tracks[k]],
     !.modifiedAt = date]

\* setStepVelocity(pattern, trackId, stepIdx, velocity)
setStepVelocity(p, trackId, stepIdx, velocity, date) ==
  [p EXCEPT
     !.tracks = [k \in DOMAIN p.tracks |->
                   IF p.tracks[k].id = trackId
                   THEN [p.tracks[k] EXCEPT
                           !.steps = [idx \in DOMAIN p.tracks[k].steps |->
                                        IF idx - 1 = stepIdx
                                        THEN [p.tracks[k].steps[idx] EXCEPT
                                                !.velocity = velocity]
                                        ELSE p.tracks[k].steps[idx]]]
                   ELSE p.tracks[k]],
     !.modifiedAt = date]

\* setTrackVolume(pattern, trackId, volume)
setTrackVolume(p, trackId, volume, date) ==
  [p EXCEPT
     !.tracks = [k \in DOMAIN p.tracks |->
                   IF p.tracks[k].id = trackId
                   THEN [p.tracks[k] EXCEPT !.volume = volume]
                   ELSE p.tracks[k]],
     !.modifiedAt = date]

\* toggleTrackMute(pattern, trackId)
toggleTrackMute(p, trackId, date) ==
  [p EXCEPT
     !.tracks = [k \in DOMAIN p.tracks |->
                   IF p.tracks[k].id = trackId
                   THEN [p.tracks[k] EXCEPT !.muted = ~p.tracks[k].muted]
                   ELSE p.tracks[k]],
     !.modifiedAt = date]

\* toggleTrackSolo(pattern, trackId)
toggleTrackSolo(p, trackId, date) ==
  [p EXCEPT
     !.tracks = [k \in DOMAIN p.tracks |->
                   IF p.tracks[k].id = trackId
                   THEN [p.tracks[k] EXCEPT !.soloed = ~p.tracks[k].soloed]
                   ELSE p.tracks[k]],
     !.modifiedAt = date]

\* addTrack(pattern, track)
addTrack(p, track, date) ==
  [p EXCEPT !.tracks = Append(p.tracks, track), !.modifiedAt = date]

\* removeTrack(pattern, trackId)
removeTrack(p, trackId, date) ==
  LET Kept(track) == track.id # trackId
  IN [p EXCEPT !.tracks = SelectSeq(p.tracks, Kept), !.modifiedAt = date]

\* The helpers that take and return a Pattern
PatternOps == {"toggleStep", "setStepVelocity", "setTrackVolume",
               "toggleTrackMute", "toggleTrackSolo", "addTrack", "removeTrack"}

\* Patterns a caller can pass to a helper: a Pattern it built, or the one
\* the previous helper call returned
PatternArgs ==
  {patternA, patternFlags} \cup (IF result.op \in PatternOps THEN {result.out} ELSE {})

\* Everything but result and edits is left alone by a helper call
SequencerUntouched ==
  /\ ticks' = <<>>
  /\ lastCall' = NoCall
  /\ heap' = heap
  /\ sm' = sm
  /\ UNCHANGED <<now, timers, scheduler, run, pattern, transportState,
                 currentStep, soloedTracks>>

\* A helper call that returns a Pattern: it constructs one Date
PatternCall(op, args, out) ==
  /\ edits < MaxCalls
  /\ edits' = edits + 1
  /\ wallClock' = out.modifiedAt
  /\ result' = [op |-> op, args |-> args, out |-> out]
  /\ SequencerUntouched

StepIndexCall ==
  \E value \in StepIndexArgs, maxSteps \in MaxStepsArgs :
    /\ result' = [op |-> "stepIndex",
                  args |-> [value |-> value, maxSteps |-> maxSteps],
                  out |-> stepIndex(value, maxSteps)]
    /\ edits' = edits
    /\ wallClock' = wallClock
    /\ SequencerUntouched

ToggleStepCall ==
  \E p \in PatternArgs, trackId \in TrackIdArgs, stepIdx \in StepIdxArgs,
     date \in NewDate :
    PatternCall("toggleStep", [p |-> p, trackId |-> trackId, stepIdx |-> stepIdx],
                toggleStep(p, trackId, stepIdx, date))

SetStepVelocityCall ==
  \E p \in PatternArgs, trackId \in TrackIdArgs, stepIdx \in StepIdxArgs,
     velocity \in VelocityArgs, date \in NewDate :
    PatternCall("setStepVelocity",
                [p |-> p, trackId |-> trackId, stepIdx |-> stepIdx,
                 velocity |-> velocity],
                setStepVelocity(p, trackId, stepIdx, velocity, date))

SetTrackVolumeCall ==
  \E p \in PatternArgs, trackId \in TrackIdArgs, volume \in VolumeInputs,
     date \in NewDate :
    PatternCall("setTrackVolume", [p |-> p, trackId |-> trackId, volume |-> volume],
                setTrackVolume(p, trackId, volume, date))

ToggleTrackMuteCall ==
  \E p \in PatternArgs, trackId \in TrackIdArgs, date \in NewDate :
    PatternCall("toggleTrackMute", [p |-> p, trackId |-> trackId],
                toggleTrackMute(p, trackId, date))

ToggleTrackSoloCall ==
  \E p \in PatternArgs, trackId \in TrackIdArgs, date \in NewDate :
    PatternCall("toggleTrackSolo", [p |-> p, trackId |-> trackId],
                toggleTrackSolo(p, trackId, date))

AddTrackCall ==
  \E p \in PatternArgs, track \in TrackArgs, date \in NewDate :
    PatternCall("addTrack", [p |-> p, track |-> track], addTrack(p, track, date))

RemoveTrackCall ==
  \E p \in PatternArgs, trackId \in TrackIdArgs, date \in NewDate :
    PatternCall("removeTrack", [p |-> p, trackId |-> trackId],
                removeTrack(p, trackId, date))

HelperCall ==
  \/ StepIndexCall
  \/ ToggleStepCall
  \/ SetStepVelocityCall
  \/ SetTrackVolumeCall
  \/ ToggleTrackMuteCall
  \/ ToggleTrackSoloCall
  \/ AddTrackCall
  \/ RemoveTrackCall

\* The Pattern Model used on its own, and through the Sequencer's edit methods
PatternEdit ==
  \/ SetPattern
  \/ ToggleMute
  \/ ToggleSolo
  \/ SetTrackVolume
  \/ ToggleStep
  \/ SetStepVelocity

NextPattern == HelperCall \/ PatternEdit
SpecPattern == Init /\ [][NextPattern]_vars

\* ------------------------------------------- Pattern values as objects
\* The same helpers and Sequencer methods at the level of object references:
\* every object and array literal, spread and map() allocates a new cell; a
\* property that is copied by a spread keeps the reference it held.
StepCell(step) == [kind |-> "step", active |-> step.active, velocity |-> step.velocity]
ArrayCell(items) == [kind |-> "array", items |-> items]

\* The cells after allocating the steps and their array (the last cell)
AllocSteps(cells, steps) ==
  LET base == Len(cells)
  IN Append(cells \o [j \in 1..Len(steps) |-> StepCell(steps[j])],
            ArrayCell([j \in 1..Len(steps) |-> base + j]))

\* createTrack: the Track object is the last cell
AllocTrack(cells, track) ==
  LET c == AllocSteps(cells, track.steps)
  IN Append(c, [kind |-> "track", id |-> track.id, sampleId |-> track.sampleId,
                steps |-> Len(c), volume |-> track.volume, muted |-> track.muted,
                soloed |-> track.soloed])

RECURSIVE AllocTracks(_, _, _, _)
AllocTracks(cells, tracks, k, items) ==
  IF k > Len(tracks)
  THEN Append(cells, ArrayCell(items))
  ELSE LET c == AllocTrack(cells, tracks[k])
       IN AllocTracks(c, tracks, k + 1, Append(items, Len(c)))

\* createPattern: the Pattern object is the last cell
AllocPattern(cells, p) ==
  LET c == AllocTracks(cells, p.tracks, 1, <<>>)
  IN Append(c, [kind |-> "pattern", id |-> p.id, length |-> p.length,
                tracks |-> Len(c), modifiedAt |-> p.modifiedAt])

\* What a reader sees through a reference
ReadStep(cells, a) == createStep(cells[a].active, cells[a].velocity)
ReadTrack(cells, a) ==
  [id |-> cells[a].id, sampleId |-> cells[a].sampleId,
   steps |-> [j \in DOMAIN cells[cells[a].steps].items |->
                ReadStep(cells, cells[cells[a].steps].items[j])],
   volume |-> cells[a].volume, muted |-> cells[a].muted, soloed |-> cells[a].soloed]
ReadPattern(cells, a) ==
  [id |-> cells[a].id,
   tracks |-> [k \in DOMAIN cells[cells[a].tracks].items |->
                 ReadTrack(cells, cells[cells[a].tracks].items[k])],
   length |-> cells[a].length, modifiedAt |-> cells[a].modifiedAt]

\* The property an edit writes: field, and for a step its index, and the
\* value for volume and velocity
EditOf(field, stepIdx, value) == [field |-> field, stepIdx |-> stepIdx, value |-> value]

\* { ...obj, field: v }: a copy of the cell with one property replaced
Spread(cell, edit) ==
  CASE edit.field = "active" -> [cell EXCEPT !.active = ~cell.active]
    [] edit.field = "velocity" -> [cell EXCEPT !.velocity = edit.value]
    [] edit.field = "muted" -> [cell EXCEPT !.muted = ~cell.muted]
    [] edit.field = "soloed" -> [cell EXCEPT !.soloed = ~cell.soloed]
    [] edit.field = "volume" -> [cell EXCEPT !.volume = edit.value]

\* track.steps.map((step, idx) => idx === stepIdx ? { ...step, f } : step):
\* the new array is the last cell
MapSteps(cells, arr, edit) ==
  LET items == cells[arr].items
      at == edit.stepIdx + 1
  IN IF at \in DOMAIN items
     THEN LET c == Append(cells, Spread(cells[items[at]], edit))
          IN Append(c, ArrayCell([items EXCEPT ![at] = Len(c)]))
     ELSE Append(cells, ArrayCell(items))

\* A variant that assigns the property on the existing Track or Step object
\* before copying it
EditTrackInPlace(cells, t, edit) ==
  IF edit.field \in {"active", "velocity"}
  THEN LET items == cells[cells[t].steps].items
           at == edit.stepIdx + 1
           c == IF at \in DOMAIN items
                THEN [cells EXCEPT ![items[at]] = Spread(cells[items[at]], edit)]
                ELSE cells
       IN Append(c, c[t])
  ELSE Append([cells EXCEPT ![t] = Spread(cells[t], edit)], Spread(cells[t], edit))

\* The replacement of a track whose id matches: { ...track, f } or
\* { ...track, steps: track.steps.map(...) }; the new Track is the last cell
EditTrack(cells, t, edit) ==
  IF edit.field \in {"active", "velocity"}
  THEN LET c == MapSteps(cells, cells[t].steps, edit)
       IN Append(c, [cells[t] EXCEPT !.steps = Len(c)])
  ELSE Append(cells, Spread(cells[t], edit))

\* pattern.tracks.map(track => track.id === trackId ? ... : track)
RECURSIVE MapTracks(_, _, _, _, _, _)
MapTracks(cells, items, k, mapped, trackId, edit) ==
  IF k > Len(items)
  THEN Append(cells, ArrayCell(mapped))
  ELSE IF cells[items[k]].id = trackId
       THEN LET c == EditTrack(cells, items[k], edit)
            IN MapTracks(c, items, k + 1, Append(mapped, Len(c)), trackId, edit)
       ELSE MapTracks(cells, items, k + 1, Append(mapped, items[k]), trackId, edit)

\* { ...pattern, tracks, modifiedAt: new Date() }: the new Pattern is the
\* last cell
WithTracks(cells, p, tracks, date) ==
  Append(cells, [cells[p] EXCEPT !.tracks = tracks, !.modifiedAt = date])

\* The five helpers that map over the tracks, and the Sequencer methods
\* that inline the same expression
EditPattern(cells, p, trackId, edit, date) ==
  LET c == MapTracks(cells, cells[cells[p].tracks].items, 1, <<>>, trackId, edit)
  IN WithTracks(c, p, Len(c), date)

\* addTrack: [...pattern.tracks, track]
AddTrackCells(cells, p, track, date) ==
  LET c == Append(cells, ArrayCell(Append(cells[cells[p].tracks].items, track)))
  IN WithTracks(c, p, Len(c), date)

\* removeTrack: pattern.tracks.filter(track => track.id !== trackId)
RemoveTrackCells(cells, p, trackId, date) ==
  LET Kept(t) == cells[t].id # trackId
      c == Append(cells, ArrayCell(SelectSeq(cells[cells[p].tracks].items, Kept)))
  IN WithTracks(c, p, Len(c), date)

\* The track ids, step indexes and edits a caller asks for
EditArgs ==
  {EditOf("active", stepIdx, 0) : stepIdx \in StepIdxArgs}
    \cup {EditOf("velocity", stepIdx, velocity) :
            stepIdx \in StepIdxArgs, velocity \in VelocityArgs}
    \cup {EditOf("volume", 0, volume) : volume \in VolumeInputs}
    \cup {EditOf("muted", 0, 0), EditOf("soloed", 0, 0)}

\* References to Patterns that a caller can hold: the one it built, the one
\* the last helper call returned, the one the pattern accessor returns
PatternRefs == {heap.root, heap.last, heap.held} \ {0}

\* Nothing of the value-level model moves but the solo-set and the step
\* cursor
OnlyHeap ==
  /\ ticks' = <<>>
  /\ lastCall' = NoCall
  /\ result' = result
  /\ sm' = sm
  /\ UNCHANGED <<now, timers, scheduler, run, pattern, transportState>>

\* The caller builds a Pattern with createTrack / createPattern, and a
\* further Track
BuildPattern ==
  \E p \in {patternA, patternFlags}, track \in TrackArgs :
    /\ heap.root = 0
    /\ LET c == AllocPattern(heap.cells, p)
           d == AllocTrack(c, track)
       IN heap' = [cells |-> d, root |-> Len(c), last |-> Len(c), held |-> 0,
                   spare |-> Len(d)]
    /\ edits' = edits
    /\ wallClock' = wallClock
    /\ soloedTracks' = soloedTracks
    /\ currentStep' = currentStep
    /\ OnlyHeap

\* A helper returned the Pattern that is the last of cells
Returned(cells) ==
  /\ edits < MaxCalls
  /\ edits' = edits + 1
  /\ wallClock' = cells[Len(cells)].modifiedAt
  /\ heap' = [heap EXCEPT !.cells = cells, !.last = Len(cells)]
  /\ soloedTracks' = soloedTracks
  /\ currentStep' = currentStep
  /\ OnlyHeap

\* toggleStep, setStepVelocity, setTrackVolume, toggleTrackMute,
\* toggleTrackSolo called on a reference
EditHelperRef ==
  \E p \in PatternRefs, trackId \in TrackIdArgs, edit \in EditArgs,
     date \in NewDate :
    Returned(EditPattern(heap.cells, p, trackId, edit, date))

AddTrackRef ==
  \E p \in PatternRefs, date \in NewDate :
    Returned(AddTrackCells(heap.cells, p, heap.spare, date))

RemoveTrackRef ==
  \E p \in PatternRefs, trackId \in TrackIdArgs, date \in NewDate :
    Returned(RemoveTrackCells(heap.cells, p, trackId, date))

\* Sequencer.setPattern(pattern): this._pattern = pattern;
\* this._currentStep = 0
SetPatternRef ==
  \E p \in PatternRefs :
    /\ heap' = [heap EXCEPT !.held = p]
    /\ currentStep' = 0
    /\ edits' = edits
    /\ wallClock' = wallClock
    /\ soloedTracks' = soloedTracks
    /\ OnlyHeap

\* this._pattern.tracks.find(t => t.id === trackId) through the reference p:
\* the Track found, 0 if none
FindTrackRef(cells, p, trackId) ==
  LET items == cells[cells[p].tracks].items
      hits == {k \in DOMAIN items : cells[items[k]].id = trackId}
  IN IF hits = {} THEN 0
     ELSE items[CHOOSE k \in hits : \A j \in hits : k <= j]

\* Sequencer.toggleMute / toggleSolo / setTrackVolume / toggleStep /
\* setStepVelocity: this._pattern = { ...this._pattern, tracks, modifiedAt };
\* toggleSolo returns early when it finds no track, and otherwise updates the
\* solo-set from the flag of the track found before it replaces the Pattern
SequencerEditRef ==
  \E trackId \in TrackIdArgs, edit \in EditArgs, date \in NewDate :
    /\ edits < MaxCalls
    /\ edits' = edits + 1
    /\ LET track == IF heap.held = 0 THEN 0
                    ELSE FindTrackRef(heap.cells, heap.held, trackId)
       IN IF heap.held = 0 \/ (edit.field = "soloed" /\ track = 0)
          THEN /\ heap' = heap
               /\ soloedTracks' = soloedTracks
               /\ wallClock' = wallClock
          ELSE /\ LET c == EditPattern(heap.cells, heap.held, trackId, edit, date)
                  IN heap' = [heap EXCEPT !.cells = c, !.held = Len(c)]
               /\ wallClock' = date
               /\ soloedTracks' =
                    IF edit.field # "soloed" THEN soloedTracks
                    ELSE IF heap.cells[track].soloed
                         THEN soloedTracks \ {trackId}
                         ELSE soloedTracks \cup {trackId}
    /\ currentStep' = currentStep
    /\ OnlyHeap

NextHeap ==
  \/ BuildPattern
  \/ EditHelperRef
  \/ AddTrackRef
  \/ RemoveTrackRef
  \/ SetPatternRef
  \/ SequencerEditRef

SpecHeap == Init /\ [][NextHeap]_vars

\* ------------------------------------------------------------ SampleManager
\* has(id), getStatus(id)
has(id) == sm.samples[id] # 0
getStatus(id) == sm.status[id]

\* Nothing but the SampleManager moves
OnlySamples ==
  /\ ticks' = <<>>
  /\ lastCall' = NoCall
  /\ result' = result
  /\ heap' = heap
  /\ UNCHANGED <<now, timers, scheduler, run, pattern, transportState,
                 currentStep, soloedTracks, edits, wallClock>>

Outcome(op, id, outcome, sample) ==
  [op |-> op, id |-> id, outcome |-> outcome, sample |-> sample]

\* load(id, url) up to its first await: the cached sample, the 'already
\* loading' rejection, or status loading and fetch(url) issued
LoadCall(id, url) ==
  /\ IF sm.samples[id] # 0
     THEN sm' = [sm EXCEPT !.last = Outcome("load", id, "cached", sm.samples[id])]
     ELSE IF sm.status[id].status = "loading"
     THEN sm' = [sm EXCEPT !.last = Outcome("load", id, "alreadyLoading", 0)]
     ELSE /\ sm.started < MaxLoads
          /\ sm' = [sm EXCEPT
                      !.status[id] = Loading(0),
                      !.loads = @ \cup {[n |-> sm.started + 1, id |-> id, url |-> url,
                                         pc |-> "fetch"]},
                      !.started = @ + 1,
                      !.removed[id] = FALSE,
                      !.last = Outcome("load", id, "started", 0)]
  /\ OnlySamples

\* The catch block: status error, the load rejects
LoadFails(l) ==
  /\ sm' = [sm EXCEPT !.status[l.id] = Failed,
                      !.loads = @ \ {l},
                      !.last = Outcome("settle", l.id, "rejected", 0)]
  /\ OnlySamples

\* load() resumes after an await: fetch (response.ok or not; a rejection),
\* response.arrayBuffer(), decodeAudioData; ok is whether the awaited step
\* succeeded
LoadResumes(l, ok) ==
  IF ~ok THEN LoadFails(l)
  ELSE /\ sm' =
            IF l.pc = "fetch"
            THEN [sm EXCEPT !.loads = (@ \ {l}) \cup {[l EXCEPT !.pc = "arrayBuffer"]},
                            !.last = Outcome("await", l.id, "fetched", 0)]
            ELSE IF l.pc = "arrayBuffer"
            THEN [sm EXCEPT !.status[l.id] = Loading(50),
                            !.loads = (@ \ {l}) \cup {[l EXCEPT !.pc = "decode"]},
                            !.last = Outcome("await", l.id, "read", 0)]
            ELSE [sm EXCEPT !.samples[l.id] = l.n,
                            !.status[l.id] = Loaded(l.n),
                            !.loads = @ \ {l},
                            !.resolved[l.id] = IF @ = 0 THEN l.n ELSE @,
                            !.last = Outcome("settle", l.id, "resolved", l.n)]
       /\ OnlySamples

\* remove(id)
Remove(id) ==
  /\ sm' = [sm EXCEPT !.samples[id] = 0,
                      !.status[id] = Idle,
                      !.removed[id] = TRUE,
                      !.resolved[id] = 0,
                      !.last = Outcome("remove", id, "", 0)]
  /\ OnlySamples

\* clear()
Clear ==
  /\ sm' = [sm EXCEPT !.samples = [id \in SampleIdInputs |-> 0],
                      !.status = [id \in SampleIdInputs |-> Idle],
                      !.removed = [id \in SampleIdInputs |-> TRUE],
                      !.resolved = [id \in SampleIdInputs |-> 0],
                      !.last = Outcome("clear", "", "", 0)]
  /\ OnlySamples

Load == \E id \in SampleIdInputs, url \in UrlInputs : LoadCall(id, url)
Resume == \E l \in sm.loads, ok \in BOOLEAN : LoadResumes(l, ok)
RemoveSample == \E id \in SampleIdInputs : Remove(id)

NextSamples ==
  \/ Load
  \/ Resume
  \/ RemoveSample
  \/ Clear

SpecSamples == Init /\ [][NextSamples]_vars

\* ------------------------------------------------------- timer and clock
\* Scheduler._scheduleLoop()
RunScheduleLoop ==
  /\ IF scheduler.callback = NoCallback \/ ~scheduler.isRunning
     THEN /\ ticks' = <<>>
          /\ UNCHANGED <<scheduler, currentStep, run>>
     ELSE LET end == ScheduleLoop([s |-> scheduler, cur |-> currentStep,
                                   log |-> <<>>, k |-> run.ticks],
                                  now + LOOKAHEAD_TIME)
          IN /\ scheduler' = end.s
             /\ currentStep' = end.cur
             /\ ticks' = end.log
             /\ run' = IF ~end.s.isRunning THEN NoRun
                       ELSE [run EXCEPT !.ticks = end.k,
                                        !.lastStep = IF end.log = <<>> THEN run.lastStep
                                                     ELSE end.log[Len(end.log)].step]
  /\ timers' = IF scheduler'.isRunning THEN timers ELSE TimersAfterStop(scheduler)
  /\ lastCall' = NoCall
  /\ result' = result /\ heap' = heap /\ sm' = sm
  /\ UNCHANGED <<now, pattern, transportState, soloedTracks, edits, wallClock>>

\* One firing of the setInterval callback of a live timer
Poll ==
  /\ timers # {}
  /\ RunScheduleLoop

\* A firing of the callback of an interval that has been cleared: the poll was
\* already due when clearInterval ran
StalePoll ==
  /\ timers = {}
  /\ RunScheduleLoop

\* The audio clock advances by one clock step; any number of advances may
\* separate two polls, so polls arrive on time, late or bunched
AdvanceClock ==
  /\ now < MaxTime * ClockStep
  /\ now' = now + ClockStep
  /\ Quiet
  /\ SchedulerUnchanged
  /\ TransportUnchanged
  /\ UNCHANGED <<pattern, soloedTracks, edits, wallClock>>

\* MockScheduler.simulateTick(time, beat): the mock takes the beat for its
\* position, and invokes the callback if one is registered
SimulateTick ==
  \E time \in TimeInputs, beat \in BeatInputs :
    /\ scheduler.impl = "MockScheduler"
    /\ scheduler' = [scheduler EXCEPT !.currentBeat = beat]
    /\ IF scheduler.callback # NoCallback
       THEN LET res == InvokeCallback(scheduler.callback, currentStep, time, beat)
            IN /\ currentStep' = res.currentStep
               /\ ticks' = <<TickRecord(-1, time, beat, currentStep, res)>>
       ELSE /\ currentStep' = currentStep
            /\ ticks' = <<>>
    /\ lastCall' = NoCall
    /\ result' = result /\ heap' = heap /\ sm' = sm
    /\ UNCHANGED <<timers, run>>
    /\ UNCHANGED <<now, pattern, transportState, soloedTracks, edits, wallClock>>

\* The arrow function handed to scheduler.start, called with (time, beat) by
\* an IScheduler that kept it, in whatever state the Sequencer is
HandlerTick ==
  \E time \in TimeInputs, beat \in BeatInputs :
    LET res == OnSchedulerTick(pattern, transportState, soloedTracks, currentStep,
                               time, beat)
    IN /\ currentStep' = res.currentStep
       /\ ticks' = <<TickRecord(-1, time, beat, currentStep, res)>>
       /\ lastCall' = NoCall
       /\ result' = result /\ heap' = heap /\ sm' = sm
       /\ SchedulerUnchanged
       /\ UNCHANGED <<now, pattern, transportState, soloedTracks, edits, wallClock>>

\* ------------------------------------- calls made on the Scheduler itself
\* scheduler.start(h) by a client holding the Scheduler
SchedulerStartCall ==
  \E h \in HandlerInputs :
    /\ scheduler' = SchedulerStart(scheduler, h, now, FreshTimer)
    /\ timers' = IF scheduler.isRunning THEN timers ELSE timers \cup {FreshTimer}
    /\ run' = IF scheduler.isRunning THEN run
              ELSE [t0 |-> now, ticks |-> 0, tempoHeld |-> TRUE, lastStep |-> 0]
    /\ ticks' = <<>>
    /\ lastCall' = "start"
    /\ result' = result /\ heap' = heap /\ sm' = sm
    /\ TransportUnchanged
    /\ UNCHANGED <<now, pattern, soloedTracks, edits, wallClock>>

\* scheduler.stop()
SchedulerStopCall ==
  /\ scheduler' = SchedulerStop(scheduler)
  /\ timers' = TimersAfterStop(scheduler)
  /\ run' = RunAfterStop(scheduler)
  /\ ticks' = <<>>
  /\ lastCall' = "stop"
  /\ result' = result /\ heap' = heap /\ sm' = sm
  /\ TransportUnchanged
  /\ UNCHANGED <<now, pattern, soloedTracks, edits, wallClock>>

\* scheduler.reset()
SchedulerResetCall ==
  /\ scheduler' = SchedulerReset(scheduler, now)
  /\ run' = IF scheduler.isRunning
            THEN [t0 |-> now, ticks |-> 0, tempoHeld |-> TRUE, lastStep |-> 0]
            ELSE run
  /\ ticks' = <<>>
  /\ lastCall' = "reset"
  /\ result' = result /\ heap' = heap /\ sm' = sm
  /\ TransportUnchanged
  /\ UNCHANGED <<now, timers, pattern, soloedTracks, edits, wallClock>>

\* scheduler.setTempo(bpm(value)), as AudioTest.tsx calls it
SchedulerSetTempoCall ==
  \E value \in RawTempoInputs :
    /\ scheduler' = SchedulerSetTempo(scheduler, bpm(value))
    /\ run' = IF scheduler.isRunning
              THEN [run EXCEPT !.tempoHeld = run.tempoHeld /\ bpm(value) = scheduler.bpm]
              ELSE run
    /\ ticks' = <<>>
    /\ lastCall' = "setTempo"
    /\ result' = result /\ heap' = heap /\ sm' = sm
    /\ TransportUnchanged
    /\ UNCHANGED <<now, timers, pattern, soloedTracks, edits, wallClock>>

\* scheduler.setTempo(value) with a number that did not pass through bpm():
\* IScheduler.setTempo takes a plain number, and `value as BPM` brands one
SchedulerSetTempoCast ==
  \E value \in RawTempoInputs :
    /\ scheduler' = SchedulerSetTempo(scheduler, value)
    /\ run' = IF scheduler.isRunning
              THEN [run EXCEPT !.tempoHeld = run.tempoHeld /\ value = scheduler.bpm]
              ELSE run
    /\ ticks' = <<>>
    /\ lastCall' = "setTempoCast"
    /\ result' = result /\ heap' = heap /\ sm' = sm
    /\ TransportUnchanged
    /\ UNCHANGED <<now, timers, pattern, soloedTracks, edits, wallClock>>

\* The calls a client makes on a Scheduler it holds
SchedulerCall ==
  \/ SchedulerStartCall
  \/ SchedulerStopCall
  \/ SchedulerResetCall
  \/ SchedulerSetTempoCall
  \/ SchedulerSetTempoCast

\* The calls a client makes on the Sequencer
SequencerCall ==
  \/ SetPattern
  \/ ToggleMute
  \/ ToggleSolo
  \/ SetTrackVolume
  \/ ToggleStep
  \/ SetStepVelocity
  \/ SetTempo
  \/ Play
  \/ Pause
  \/ Stop
  \/ Destroy

\* The Sequencer on its Scheduler, under the interval timer and the audio clock
Next ==
  \/ SequencerCall
  \/ Poll
  \/ AdvanceClock

Spec == Init /\ [][Next]_vars

\* The Sequencer with its tick callback called directly, tick by tick
NextHandler ==
  \/ SequencerCall
  \/ HandlerTick

SpecHandler == Init /\ [][NextHandler]_vars

\* The Sequencer on the MockScheduler, ticked by simulateTick as the tests of
\* Sequencer.test.ts do
NextMock ==
  \/ SequencerCall
  \/ SimulateTick

SpecMock == InitMock /\ [][NextMock]_vars

\* The Sequencer on its Scheduler where a callback of a cleared interval may
\* still fire
NextStale ==
  \/ Next
  \/ StalePoll

SpecStale == Init /\ [][NextStale]_vars

\* A Scheduler driven by a client of its own, without a Sequencer
NextScheduler ==
  \/ SchedulerCall
  \/ Poll
  \/ StalePoll
  \/ AdvanceClock

SpecScheduler == Init /\ [][NextScheduler]_vars


\* ======================================================================
\* Properties
\* ======================================================================

\* The tick records of the last event that were handled while Playing with a
\* Pattern loaded
Handled(r) == r.status = "playing" /\ r.pattern # <<>>

\* The j-th smallest member of a set of numbers
Nth(S, j) == CHOOSE i \in S : Cardinality({x \in S : x < i}) = j - 1

\* The tracks (by position) of tick record r that the mix policy lets fire
StepAt(t, step) == IF (step + 1) \in DOMAIN t.steps THEN <<t.steps[step + 1]>> ELSE <<>>
Fires(r, t) ==
  /\ ~t.muted
  /\ (r.solo = {} \/ t.soloed)
  /\ StepAt(t, r.step) # <<>>
  /\ StepAt(t, r.step)[1].active
Firing(r) == {i \in DOMAIN r.pattern[1].tracks : Fires(r, r.pattern[1].tracks[i])}

\* C1: within one Scheduler run with the tempo held at b, the k-th tick
\* delivered carries scheduledTime = T0 + k * 60/(4*b), whenever and however
\* often the polls fire.
C1_TickTimesArithmetic ==
  run.tempoHeld =>
    \A i \in DOMAIN ticks :
      ticks[i].time = run.t0 + ticks[i].k * ((60 * UnitsPerSecond) \div (4 * scheduler.bpm))

\* C1 witness: a late poll delivers a tick other than the first of its run
C1_Witness ==
  /\ run.tempoHeld
  /\ ticks # <<>>
  /\ ticks[1].k >= 1
  /\ ticks[1].time < ticks[1].at

\* C2: when a poll pass of a running Scheduler ends at clock reading now,
\* nextScheduledTime >= now + lookahead.
C2_LookaheadFlushed ==
  [][(Poll /\ scheduler.isRunning) => scheduler'.nextNoteTime >= now' + LOOKAHEAD_TIME]_vars

\* C2 witness: a pass has just delivered two ticks and left the next one
\* outside the window
C2_Witness ==
  /\ scheduler.isRunning
  /\ Len(ticks) >= 2
  /\ ticks[1].at = now
  /\ scheduler.nextNoteTime >= now + LOOKAHEAD_TIME

\* C3: while Playing, the k-th tick after play() sets currentStep to
\* k mod pattern.length, consecutive ticks visit consecutive steps, and a
\* length-16 Pattern ticked at beat 4 is at step 0.
C3_StepIsTickModLength ==
  /\ \A i \in DOMAIN ticks :
       Handled(ticks[i]) => ticks[i].step = ticks[i].k % ticks[i].pattern[1].length
  /\ \A i \in DOMAIN ticks :
       (i > 1 /\ Handled(ticks[i])) =>
          ticks[i].step = (ticks[i - 1].step + 1) % ticks[i].pattern[1].length
  /\ (ticks # <<>> /\ Handled(ticks[Len(ticks)])) => currentStep = ticks[Len(ticks)].step
  /\ StepOfBeat(4 * BeatScale, DEFAULT_STEPS) = 0

\* C3 witness: a tick past the end of a 3-step Pattern has wrapped around
C3_Witness ==
  /\ ticks # <<>>
  /\ Handled(ticks[Len(ticks)])
  /\ ticks[Len(ticks)].k = 3
  /\ ticks[Len(ticks)].pattern[1].length = 3
  /\ currentStep = 0

\* C4: a tick at step s while Playing triggers exactly the tracks that are
\* not muted, solo-eligible and active at s, once each, in track order, with
\* the track's sampleId and the tick's scheduledTime; on the test Pattern,
\* beats 0,1,2,3 trigger kick, snare, kick, snare.
C4_TriggersExactlyFiringTracks ==
  \A i \in DOMAIN ticks :
    LET r == ticks[i] IN
    Handled(r) =>
      /\ Len(r.voices) = Cardinality(Firing(r))
      /\ \A j \in DOMAIN r.voices :
           /\ r.voices[j].sampleId = r.pattern[1].tracks[Nth(Firing(r), j)].sampleId
           /\ r.voices[j].startTime = r.time
      /\ (r.pattern = <<testPattern>> /\ r.solo = {}) =>
           /\ r.beat \in {0, 2 * BeatScale} =>
                 (Len(r.voices) = 1 /\ r.voices[1].sampleId = "kick")
           /\ r.beat \in {BeatScale, 3 * BeatScale} =>
                 (Len(r.voices) = 1 /\ r.voices[1].sampleId = "snare")

\* C4 witness: one tick triggers two tracks, at a time that is not the clock's
C4_Witness ==
  /\ ticks # <<>>
  /\ Handled(ticks[1])
  /\ Len(ticks[1].voices) = 2
  /\ ticks[1].time # now

\* C5: a muted track gets no trigger, even when it is active at the step and
\* soloed both in the Pattern and in the solo-set.
C5_MutePrecedence ==
  \A i \in DOMAIN ticks :
    ticks[i].pattern # <<>> =>
      \A n \in DOMAIN ticks[i].pattern[1].tracks :
        ticks[i].pattern[1].tracks[n].muted =>
          \A j \in DOMAIN ticks[i].voices :
            ticks[i].voices[j].sampleId # ticks[i].pattern[1].tracks[n].sampleId

\* C5 witness: a tick handled while Playing at a step where a muted track is
\* active, soloed and in the solo-set
C5_Witness ==
  /\ ticks # <<>>
  /\ Handled(ticks[1])
  /\ \E n \in DOMAIN ticks[1].pattern[1].tracks :
       LET t == ticks[1].pattern[1].tracks[n] IN
       /\ t.muted
       /\ t.soloed
       /\ t.id \in ticks[1].solo
       /\ StepAt(t, ticks[1].step) # <<>>
       /\ StepAt(t, ticks[1].step)[1].active


\* The voices of tick record r that were triggered for track t
VoicesOf(r, t) == {j \in DOMAIN r.voices : r.voices[j].sampleId = t.sampleId}

\* C6: whenever the solo-set is non-empty, a tick triggers no track whose id is
\* outside the solo-set.
C6_SoloIsolation ==
  \A i \in DOMAIN ticks :
    (ticks[i].pattern # <<>> /\ ticks[i].solo # {}) =>
      \A n \in DOMAIN ticks[i].pattern[1].tracks :
        ticks[i].pattern[1].tracks[n].id \notin ticks[i].solo =>
          VoicesOf(ticks[i], ticks[i].pattern[1].tracks[n]) = {}

\* C7: an unmuted track with an active current step is left out of a tick
\* only if some track of the held Pattern is soloed and this one is not; so
\* with no track soloed every unmuted active track is triggered.
C7_SkipOnlyForPatternSolo ==
  \A i \in DOMAIN ticks :
    Handled(ticks[i]) =>
      \A n \in DOMAIN ticks[i].pattern[1].tracks :
        LET t == ticks[i].pattern[1].tracks[n] IN
        (/\ ~t.muted
         /\ StepAt(t, ticks[i].step) # <<>>
         /\ StepAt(t, ticks[i].step)[1].active
         /\ VoicesOf(ticks[i], t) = {}) =>
           /\ \E m \in DOMAIN ticks[i].pattern[1].tracks :
                ticks[i].pattern[1].tracks[m].soloed
           /\ ~t.soloed

\* The ids of the tracks of Pattern p whose soloed flag is set
SoloedIds(p) == {p.tracks[n].id : n \in {m \in DOMAIN p.tracks : p.tracks[m].soloed}}

\* C8: with a Pattern loaded, the solo-set equals the set of ids of the
\* tracks of the held Pattern whose soloed flag is true.
C8_SoloSetMirrorsPattern ==
  HasPattern => soloedTracks = SoloedIds(pattern[1])

\* C9: every trigger for track t at step s carries gain = t.volume *
\* t.steps[s].velocity clamped to [0,1], from the Pattern held at the tick; with
\* both factors in [0,1] it is exactly the product.
C9_GainLaw ==
  \A i \in DOMAIN ticks :
    LET r == ticks[i] IN
    Handled(r) =>
      \A j \in DOMAIN r.voices :
        LET t == r.pattern[1].tracks[Nth(Firing(r), j)]
            product == t.volume * t.steps[r.step + 1].velocity
        IN /\ r.voices[j].gain =
                IF product < 0 THEN 0
                ELSE IF product > GainScale * GainScale THEN GainScale * GainScale
                ELSE product
           /\ (t.volume \in 0..GainScale /\ t.steps[r.step + 1].velocity \in 0..GainScale)
                => r.voices[j].gain = product

\* C9 witness: a trigger carries the volume set by an earlier setTrackVolume:
\* 0.5 * 0.9 = 0.45
C9_Witness ==
  /\ ticks # <<>>
  /\ Handled(ticks[1])
  /\ ticks[1].pattern[1].modifiedAt > 0
  /\ \E j \in DOMAIN ticks[1].voices : ticks[1].voices[j].gain = 50 * 90

\* C10: a tick-handler invocation that arrives while Stopped or Paused, or
\* with no Pattern loaded, triggers nothing and leaves currentStep unchanged.
C10_NoTriggerUnlessPlaying ==
  \A i \in DOMAIN ticks :
    ~Handled(ticks[i]) =>
      /\ ticks[i].voices = <<>>
      /\ ticks[i].step = ticks[i].stepBefore
      /\ (i = Len(ticks) => currentStep = ticks[i].stepBefore)

\* C10 witness: a tick arrives while Paused at step 1 with a Pattern loaded
\* whose step for that beat is another one and has an active track
C10_Witness ==
  /\ ticks # <<>>
  /\ ticks[1].status = "paused"
  /\ ticks[1].pattern # <<>>
  /\ ticks[1].stepBefore = 1
  /\ currentStep = 1
  /\ StepOfBeat(ticks[1].beat, ticks[1].pattern[1].length) = 0
  /\ \E n \in DOMAIN ticks[1].pattern[1].tracks :
       /\ ~ticks[1].pattern[1].tracks[n].muted
       /\ ticks[1].pattern[1].tracks[n].steps[1].active


\* ------------------------------------------------------------ transport
\* C11: the Sequencer starts Stopped at step 0 with its Scheduler idle; play()
\* from Stopped with a Pattern loaded moves to Playing with startBeat 0 and starts
\* the Scheduler (running, beat 0, first tick due now, one timer, the Sequencer's
\* callback); play() from Stopped with no Pattern leaves the state Stopped and the
\* Scheduler not started.
C11_PlayNeedsPattern ==
  /\ transportState = Stopped /\ currentStep = 0 /\ ~scheduler.isRunning
  /\ [][(Play /\ transportState.status = "stopped") =>
          IF HasPattern
          THEN /\ transportState'.status = "playing"
               /\ transportState'.startBeat = 0
               /\ ~scheduler.isRunning
               /\ scheduler'.isRunning
               /\ scheduler'.callback = SeqCallback
               /\ scheduler'.currentBeat = 0
               /\ scheduler'.nextNoteTime = now
               /\ Cardinality(timers') = 1
          ELSE /\ transportState' = Stopped
               /\ ~scheduler'.isRunning
               /\ timers' = {}]_vars

\* play() has just started a run from Stopped, later than the clock's origin
C11_Witness ==
  /\ transportState.status = "playing"
  /\ transportState.startBeat = 0
  /\ transportState.startTime = now
  /\ now > 0
  /\ scheduler.isRunning
  /\ scheduler.nextNoteTime = now
  /\ run.ticks = 0

\* C12: play() while Playing, pause() while Stopped or Paused and stop() while
\* Stopped change nothing: not the transport state (a stored pausedBeat
\* included), currentStep, the Pattern, the solo-set, nor the Scheduler
\* (running flag, beat position, next scheduled time) and its timer.
C12_InvalidTransitionsAreNoOps ==
  [][(\/ Play /\ transportState.status = "playing"
      \/ Pause /\ transportState.status # "playing"
      \/ Stop /\ transportState.status = "stopped")
     => UNCHANGED <<transportState, currentStep, pattern, soloedTracks,
                    scheduler, timers>>]_vars

\* Paused with a stored beat and a cursor off 0: pause() is invalid here and
\* there is a pausedBeat and a currentStep to lose
C12_Witness ==
  /\ transportState.status = "paused"
  /\ transportState.pausedBeat > 0
  /\ currentStep > 0
  /\ soloedTracks # {}

\* C13: pause() while Playing moves to Paused and stops the Scheduler; the
\* stored pausedBeat is the Scheduler's beat position as it was before the
\* stop reset it, a quarter beat for each tick delivered in the run, so it is
\* 0 exactly when the run delivered no tick.
C13_PausedBeatIsBeatBeforeStop ==
  [][(Pause /\ transportState.status = "playing") =>
       /\ transportState'.status = "paused"
       /\ ~scheduler'.isRunning
       /\ timers' = {}
       /\ scheduler'.currentBeat = 0
       /\ transportState'.pausedBeat = scheduler.currentBeat
       /\ transportState'.pausedBeat * 4 = run.ticks * BeatScale
       /\ (transportState'.pausedBeat = 0 <=> run.ticks = 0)]_vars

\* Paused after three ticks: the stored beat is 0.75 though the Scheduler's own
\* position is back at 0
C13_Witness ==
  /\ transportState.status = "paused"
  /\ transportState.pausedBeat * 4 = 3 * BeatScale
  /\ scheduler.currentBeat = 0
  /\ ~scheduler.isRunning


\* C14: stop() from Playing or Paused leaves status stopped, currentStep 0 and
\* the Scheduler idle; a play() from Stopped begins a run at beat 0 with no tick
\* counted, and the first tick of every run carries beat 0 and, when handled,
\* sets step 0, wherever an earlier run was stopped.
C14_StopResetsPosition ==
  /\ [](\A i \in DOMAIN ticks :
          ticks[i].k = 0 =>
            /\ ticks[i].beat = 0
            /\ ticks[i].time = run.t0
            /\ (Handled(ticks[i]) => ticks[i].step = 0))
  /\ [][(Stop /\ transportState.status \in {"playing", "paused"}) =>
          /\ transportState' = Stopped
          /\ currentStep' = 0
          /\ ~scheduler'.isRunning
          /\ scheduler'.currentBeat = 0
          /\ timers' = {}]_vars
  /\ [][(Play /\ transportState.status = "stopped" /\ HasPattern) =>
          /\ scheduler'.currentBeat = 0
          /\ run'.ticks = 0
          /\ pattern' = pattern]_vars

\* The first tick of a run begun at least two step intervals after the clock's
\* origin: it is handled at beat 0 and sets step 0
C14_Witness ==
  /\ ticks # <<>>
  /\ ticks[1].k = 0
  /\ ticks[1].beat = 0
  /\ Handled(ticks[1])
  /\ ticks[1].step = 0
  /\ run.t0 >= 2 * SecondsPerSixteenth(scheduler.bpm)


\* ---------------------------------------------------------- cancellation
\* C15: once stop(), pause() or destroy() has returned the Scheduler is idle
\* with no timer and no callback, and from then until the next play() no event
\* invokes the tick handler, not even the callback of the cleared interval
\* firing late: every handler invocation finds the transport Playing, and no
\* step taken from a state that is not Playing delivers a tick.
C15_NoTickAfterCancel ==
  /\ [](\A i \in DOMAIN ticks :
          /\ ticks[i].status = "playing"
          /\ ticks[i].pattern # <<>>)
  /\ [][transportState.status # "playing" => ticks' = <<>>]_vars
  /\ [][((Pause /\ transportState.status = "playing") \/ Stop \/ Destroy) =>
          /\ ~scheduler'.isRunning
          /\ scheduler'.callback = NoCallback
          /\ timers' = {}
          /\ ticks' = <<>>]_vars

\* Paused after one tick, at a clock reading by which the run's second tick
\* would have been delivered at any of the tempi, with nothing logged
C15_Witness ==
  /\ transportState.status = "paused"
  /\ transportState.pausedBeat * 4 = BeatScale
  /\ now + LOOKAHEAD_TIME > SecondsPerSixteenth(DEFAULT_BPM)
  /\ now >= SecondsPerSixteenth(DEFAULT_BPM)
  /\ timers = {}
  /\ ticks = <<>>


\* ------------------------------------------------------ Scheduler contract
\* C16: whenever Scheduler.stop() has just returned, the Scheduler is not
\* running, holds no timer and no callback, and currentBeat and nextNoteTime are
\* 0, whatever state it was called in; and a stop() that follows a stop()
\* changes nothing.
C16_StopPostcondition ==
  /\ [](lastCall = "stop" =>
          /\ ~scheduler.isRunning
          /\ scheduler.intervalId = NoTimer
          /\ timers = {}
          /\ scheduler.callback = NoCallback
          /\ scheduler.currentBeat = 0
          /\ scheduler.nextNoteTime = 0)
  /\ [][(SchedulerStopCall /\ lastCall = "stop") =>
          UNCHANGED <<scheduler, timers>>]_vars


\* C17: Scheduler.start(h) on an idle Scheduler sets it running with h
\* registered, currentBeat 0, nextNoteTime the clock reading, and one more
\* interval timer, which it holds; on a running Scheduler it changes nothing:
\* not the callback, not currentBeat or nextNoteTime, not the timers.
C17_StartOnlyWhenIdle ==
  [][SchedulerStartCall =>
       IF ~scheduler.isRunning
       THEN /\ scheduler'.isRunning
            /\ scheduler'.callback \in HandlerInputs
            /\ scheduler'.currentBeat = 0
            /\ scheduler'.nextNoteTime = now
            /\ scheduler'.intervalId \in timers'
            /\ Cardinality(timers') = Cardinality(timers) + 1
       ELSE UNCHANGED <<scheduler, timers>>]_vars

\* start() has just returned on a Scheduler that is past its first tick: the
\* position was not reset and there is still one timer
C17_Witness ==
  /\ lastCall = "start"
  /\ scheduler.isRunning
  /\ scheduler.currentBeat > 0
  /\ scheduler.nextNoteTime > now
  /\ Cardinality(timers) = 1


\* C18: setTempo leaves nextNoteTime and currentBeat as they are; the first
\* tick of any poll is delivered at the nextNoteTime and currentBeat held before
\* the poll, so the tick pending at a tempo change keeps the time computed
\* under the old tempo; within a poll each tick follows its predecessor by
\* 60/(4*bpm) of the tempo now set, and so does the pending tick after it.
C18_TempoChangeNotRetroactive ==
  /\ [][SetTempo =>
          /\ scheduler'.nextNoteTime = scheduler.nextNoteTime
          /\ scheduler'.currentBeat = scheduler.currentBeat]_vars
  /\ [][ticks' # <<>> =>
          /\ ticks'[1].time = scheduler.nextNoteTime
          /\ ticks'[1].beat = scheduler.currentBeat]_vars
  /\ [](\A i \in DOMAIN ticks :
          i > 1 => ticks[i].time - ticks[i - 1].time
                     = (60 * UnitsPerSecond) \div (4 * scheduler.bpm))
  /\ [](ticks # <<>> =>
          scheduler.nextNoteTime - ticks[Len(ticks)].time
            = (60 * UnitsPerSecond) \div (4 * scheduler.bpm))

\* A poll after a tempo change delivered two ticks: the first off the grid of
\* the new tempo, at the time the old tempo gave it, the second one new
\* interval later
C18_Witness ==
  /\ ~run.tempoHeld
  /\ Len(ticks) >= 2
  /\ ticks[1].k > 0
  /\ ticks[1].time # run.t0 + ticks[1].k * ((60 * UnitsPerSecond) \div (4 * scheduler.bpm))
  /\ ticks[2].time - ticks[1].time = (60 * UnitsPerSecond) \div (4 * scheduler.bpm)


\* C19: in every reachable state the Scheduler's tempo lies in [60, 200],
\* whatever number was handed to setTempo.
C19_TempoInRange ==
  /\ scheduler.bpm >= MIN_BPM
  /\ scheduler.bpm <= MAX_BPM


\* ------------------------------------------------------------- edits
\* C20: toggleStep, setStepVelocity, setTrackVolume, toggleMute and toggleSolo,
\* called with no Pattern loaded or with a trackId that no track of the held
\* Pattern has, leave the held Pattern (modifiedAt included), the solo-set, the
\* transport state and currentStep unchanged.
C20_EditsOfUnknownTrackAreNoOps ==
  [][\A trackId \in TrackIdInputs :
       (/\ ~HasPattern \/ FindTrack(pattern[1], trackId) = 0
        /\ \/ ToggleMuteOf(trackId)
           \/ ToggleSoloOf(trackId)
           \/ \E volume \in VolumeInputs : SetTrackVolumeOf(trackId, volume)
           \/ \E stepIdx \in StepIndexInputs : ToggleStepOf(trackId, stepIdx)
           \/ \E stepIdx \in StepIndexInputs, velocity \in VelocityInputs :
                SetStepVelocityOf(trackId, stepIdx, velocity))
       => UNCHANGED <<pattern, soloedTracks, transportState, currentStep>>]_vars


\* ------------------------------------------------------ Pattern swaps
\* C23: setPattern(p) makes p the held Pattern and currentStep 0 and leaves the
\* transport state, the Scheduler and its timer as they are; every tick of a
\* later poll starts from the Scheduler's beat position as it stood, is
\* handled against the Pattern held when the poll began, and lands on step
\* floor(beat * stepsPerBeat) mod that Pattern's length.
C23_SetPatternTakesEffectNextTick ==
  /\ [][SetPattern =>
          /\ pattern' # <<>>
          /\ pattern'[1] \in PatternInputs
          /\ currentStep' = 0
          /\ UNCHANGED <<transportState, scheduler, timers>>]_vars
  /\ [][ticks' # <<>> =>
          /\ ticks'[1].beat = scheduler.currentBeat
          /\ \A i \in DOMAIN ticks' :
               Handled(ticks'[i]) =>
                 /\ ticks'[i].pattern = pattern
                 /\ ticks'[i].step =
                      ((ticks'[i].beat * STEPS_PER_BEAT) \div BeatScale)
                        % pattern[1].length]_vars

\* The third tick of a run finds the cursor at 0, where only a setPattern since
\* the second tick can have put it, and lands on step 2 of the 3-step Pattern
C23_Witness ==
  /\ ticks # <<>>
  /\ ticks[1].k = 2
  /\ ticks[1].stepBefore = 0
  /\ Handled(ticks[1])
  /\ ticks[1].pattern[1].length = 3
  /\ ticks[1].step = 2


\* The Pattern among the inputs that Pattern p was loaded as
LoadedAs(p) == CHOOSE q \in PatternInputs : q.id = p.id

\* C24: however edits and polls interleave, every tick handled takes all its
\* triggers from one Pattern value, the one held when the poll fired (the
\* product of the last edit completed): the voices are those of that Pattern's
\* firing tracks, one each in track order, with that track's sampleId and the
\* gain of that track's volume and step velocity.
C24_TickSeesOnePattern ==
  \A i \in DOMAIN ticks :
    LET r == ticks[i] IN
    Handled(r) =>
      /\ r.pattern = pattern
      /\ Len(r.voices) = Cardinality(Firing(r))
      /\ \A j \in DOMAIN r.voices :
           LET t == pattern[1].tracks[Nth(Firing(r), j)] IN
           /\ r.voices[j].sampleId = t.sampleId
           /\ r.voices[j].gain =
                Max(0, Min(GainScale * GainScale,
                           t.volume * t.steps[r.step + 1].velocity))

\* A tick past the first of its run, handled against an edited Pattern whose
\* firing tracks are not those of the Pattern as loaded
C24_Witness ==
  /\ ticks # <<>>
  /\ Handled(ticks[1])
  /\ ticks[1].k > 0
  /\ pattern[1].modifiedAt > 0
  /\ Firing(ticks[1]) # Firing([ticks[1] EXCEPT !.pattern = <<LoadedAs(pattern[1])>>])


\* ------------------------------------------------------ destroy, resume
\* C25: destroy() leaves status stopped, currentStep 0, the Scheduler idle
\* without a timer, no Pattern and an empty solo-set, whatever the state before;
\* with no Pattern held play() changes nothing, and no call other than
\* setPattern brings a Pattern back, so the Sequencer stays Stopped and idle
\* for as long as it holds none.
C25_DestroyReleasesEverything ==
  /\ [][Destroy =>
          /\ transportState' = Stopped
          /\ currentStep' = 0
          /\ ~scheduler'.isRunning
          /\ scheduler'.callback = NoCallback
          /\ timers' = {}
          /\ pattern' = <<>>
          /\ soloedTracks' = {}]_vars
  /\ [][(Play /\ ~HasPattern) =>
          UNCHANGED <<transportState, scheduler, timers, pattern, currentStep>>]_vars
  /\ [][(~HasPattern /\ pattern' # <<>>) => SetPattern]_vars
  /\ [](~HasPattern =>
          /\ transportState = Stopped
          /\ ~scheduler.isRunning
          /\ currentStep = 0
          /\ soloedTracks = {})

\* No Pattern is held, the clock has moved on and the tempo has been changed:
\* the Sequencer is Stopped and idle
C25_Witness ==
  /\ ~HasPattern
  /\ transportState = Stopped
  /\ ~scheduler.isRunning
  /\ now > 0
  /\ scheduler.bpm # DEFAULT_BPM

\* C26: play() while Paused moves to Playing with startBeat 0 and starts the
\* Scheduler afresh at beat 0 with the first tick due now, whatever pausedBeat
\* was stored; the run's first tick carries beat 0 and sets step 0.
C26_PlayAfterPauseRestarts ==
  /\ [][(Play /\ transportState.status = "paused") =>
          /\ transportState'.status = "playing"
          /\ transportState'.startBeat = 0
          /\ scheduler'.isRunning
          /\ scheduler'.currentBeat = 0
          /\ scheduler'.nextNoteTime = now
          /\ run'.ticks = 0
          /\ currentStep' = currentStep]_vars
  /\ [][\A i \in DOMAIN ticks' :
          ticks'[i].k = 0 =>
            /\ ticks'[i].beat = 0
            /\ (Handled(ticks'[i]) => ticks'[i].step = 0)]_vars

\* The first tick of a run finds the cursor off 0, where only a pause can have
\* left it (stop and setPattern rewind it), and sets it to 0 at beat 0
C26_Witness ==
  /\ ticks # <<>>
  /\ ticks[1].k = 0
  /\ ticks[1].stepBefore > 0
  /\ Handled(ticks[1])
  /\ ticks[1].beat = 0
  /\ ticks[1].step = 0

\* The step cursor is where the last tick of the current run put it
OnLastTickStep == run.ticks > 0 => currentStep = run.lastStep

Threw(r) == scheduler.callback = ThrowingHandler /\ r.beat > 0

\* C29: when the callback throws during a poll, that invocation is the last of
\* the poll, and the Scheduler is left running with its timer, with
\* nextNoteTime and currentBeat at the time and beat of the failed tick: not
\* advanced past it and not moved back.
C29_ThrowLeavesClockInPlace ==
  \A i \in DOMAIN ticks :
    Threw(ticks[i]) =>
      /\ i = Len(ticks)
      /\ scheduler.nextNoteTime = ticks[i].time
      /\ scheduler.currentBeat = ticks[i].beat
      /\ scheduler.isRunning
      /\ scheduler.callback = ThrowingHandler
      /\ scheduler.intervalId \in timers

\* A poll delivered the first tick and then the second, which threw, while a
\* third was already within the lookahead window
C29_Witness ==
  /\ Len(ticks) = 2
  /\ ~Threw(ticks[1])
  /\ Threw(ticks[2])
  /\ scheduler.nextNoteTime + SecondsPerSixteenth(scheduler.bpm) < now + LOOKAHEAD_TIME


\* --------------------------------------------------- Pattern Model helpers
\* Structural equality of two Patterns except for modifiedAt
SameButDate(p, q) == [p EXCEPT !.modifiedAt = 0] = [q EXCEPT !.modifiedAt = 0]

\* C30: stepIndex(v, maxSteps) throws exactly when v < 0 or v >= maxSteps,
\* where maxSteps is 16 when the argument is omitted, and otherwise returns v
\* itself: no clamping, no wrapping.
C30_StepIndexFailsFast ==
  result.op = "stepIndex" =>
    LET v == result.args.value
        m == IF result.args.maxSteps = <<>> THEN 16 ELSE result.args.maxSteps[1]
    IN /\ result.out.threw <=> (v < 0 \/ v >= m)
       /\ ~result.out.threw => result.out.value = v

\* stepIndex(16) with maxSteps omitted has thrown
C30_Witness ==
  /\ result.op = "stepIndex"
  /\ result.args = [value |-> 16, maxSteps |-> <<>>]
  /\ result.out.threw

\* The Pattern q differs from p in the active flag of step number stepIdx of
\* the tracks with id trackId, and (modifiedAt aside) in nothing else
OnlyStepFlipped(p, q, trackId, stepIdx) ==
  /\ q.id = p.id
  /\ q.length = p.length
  /\ Len(q.tracks) = Len(p.tracks)
  /\ \A k \in DOMAIN p.tracks :
       LET a == p.tracks[k]
           b == q.tracks[k]
       IN /\ b.id = a.id
          /\ b.sampleId = a.sampleId
          /\ b.volume = a.volume
          /\ b.muted = a.muted
          /\ b.soloed = a.soloed
          /\ Len(b.steps) = Len(a.steps)
          /\ \A j \in DOMAIN a.steps :
               /\ b.steps[j].velocity = a.steps[j].velocity
               /\ (b.steps[j].active # a.steps[j].active)
                    <=> (a.id = trackId /\ j - 1 = stepIdx)

\* The Pattern the Sequencer holds after a second toggleSolo(trackId)
SoloToggledAgain(p, trackId) ==
  IF FindTrack(p, trackId) # 0 THEN SeqToggleSolo(p, trackId, 0) ELSE p

\* C21: one toggleStep(p, t, i) flips the active flag of step i of track t and
\* changes nothing else but modifiedAt; toggleStep applied to its own result
\* with the same t and i gives back p except for modifiedAt; and the
\* Sequencer's toggleStep, toggleMute and toggleSolo, applied a second time
\* with the same arguments, give back the Pattern held before the first.
C21_ToggleIsInvolution ==
  /\ [](result.op = "toggleStep" =>
          OnlyStepFlipped(result.args.p, result.out,
                          result.args.trackId, result.args.stepIdx))
  /\ [][(/\ result.op = "toggleStep"
          /\ result'.op = "toggleStep"
          /\ edits' = edits + 1
          /\ result'.args = [result.args EXCEPT !.p = result.out])
         => SameButDate(result'.out, result.args.p)]_vars
  /\ [][HasPattern =>
          \A trackId \in TrackIdInputs :
            /\ ToggleMuteOf(trackId)
                 => SameButDate(SeqToggleMute(pattern'[1], trackId, 0), pattern[1])
            /\ ToggleSoloOf(trackId)
                 => SameButDate(SoloToggledAgain(pattern'[1], trackId), pattern[1])
            /\ \A stepIdx \in StepIndexInputs :
                 ToggleStepOf(trackId, stepIdx)
                   => SameButDate(SeqToggleStep(pattern'[1], trackId, stepIdx, 0),
                                  pattern[1])]_vars

\* toggleStep(q, "a", 0) has just returned patternA (modifiedAt aside) for the
\* q that an earlier helper call returned
C21_Witness ==
  /\ edits = 2
  /\ result.op = "toggleStep"
  /\ result.args.trackId = "a"
  /\ result.args.stepIdx = 0
  /\ result.args.p.modifiedAt = 1
  /\ ~result.args.p.tracks[1].steps[1].active
  /\ SameButDate(result.out, patternA)

\* C28: with a Pattern held, each Sequencer edit method leaves the Sequencer
\* holding the Pattern (modifiedAt aside) that the Pattern Model helper of the
\* same purpose returns for the held Pattern and the same arguments.
C28_EditsAgreeWithHelpers ==
  [][HasPattern =>
      \A trackId \in TrackIdInputs :
        /\ ToggleMuteOf(trackId)
             => SameButDate(pattern'[1], toggleTrackMute(pattern[1], trackId, 0))
        /\ ToggleSoloOf(trackId)
             => SameButDate(pattern'[1], toggleTrackSolo(pattern[1], trackId, 0))
        /\ \A volume \in VolumeInputs :
             SetTrackVolumeOf(trackId, volume)
               => SameButDate(pattern'[1],
                              setTrackVolume(pattern[1], trackId, volume, 0))
        /\ \A stepIdx \in StepIndexInputs :
             /\ ToggleStepOf(trackId, stepIdx)
                  => SameButDate(pattern'[1],
                                 toggleStep(pattern[1], trackId, stepIdx, 0))
             /\ \A velocity \in VelocityInputs :
                  SetStepVelocityOf(trackId, stepIdx, velocity)
                    => SameButDate(pattern'[1],
                                   setStepVelocity(pattern[1], trackId, stepIdx,
                                                   velocity, 0))]_vars

\* The Sequencer's toggleSolo("b") has been applied to the loaded patternFlags
C28_Witness ==
  /\ HasPattern
  /\ result = NoResult
  /\ edits = 1
  /\ pattern[1].modifiedAt = 1
  /\ pattern[1].id = "F"
  /\ pattern[1].tracks[2].soloed


\* ----------------------------------------------------------- immutability
\* C22: no edit operation changes a field of an object that already exists:
\* every Pattern, array, Track and Step cell keeps its contents, and every
\* Pattern reference reads the same Pattern value after the operation as
\* before it.
C22_EditsNeverMutate ==
  [][/\ \A a \in DOMAIN heap.cells :
          /\ a \in DOMAIN heap'.cells
          /\ heap'.cells[a] = heap.cells[a]
     /\ \A a \in DOMAIN heap.cells :
          heap.cells[a].kind = "pattern"
            => ReadPattern(heap'.cells, a) = ReadPattern(heap.cells, a)]_vars

\* After two edits the Sequencer holds a Pattern that is neither the one
\* the caller built nor equal to it, and the built one still reads as built
C22_Witness ==
  /\ edits = 2
  /\ heap.root # 0
  /\ heap.held \notin {0, heap.root}
  /\ heap.last # heap.root
  /\ ReadPattern(heap.cells, heap.root) = patternA
  /\ ReadPattern(heap.cells, heap.held).tracks # patternA.tracks
  /\ ReadPattern(heap.cells, heap.last).tracks # patternA.tracks

\* ------------------------------------------------------ state invariants
\* C32: whenever the Sequencer is Stopped its cursor is at step 0; the cursor
\* is non-zero only while Playing or Paused.
C32_StoppedCursorAtZero ==
  transportState.status = "stopped" => currentStep = 0

\* Stopped with a Pattern loaded at a clock reading by which a run has
\* moved the cursor off step 0
C32_Witness ==
  /\ transportState.status = "stopped"
  /\ HasPattern
  /\ currentStep = 0
  /\ ~scheduler.isRunning
  /\ now >= SecondsPerSixteenth(scheduler.bpm)

\* C33: the Sequencer is Playing exactly when the Scheduler is running with
\* the Sequencer's tick callback registered; while Stopped or Paused the
\* Scheduler is not running.
C33_PlayingIffSchedulerRuns ==
  /\ (transportState.status = "playing")
       <=> (scheduler.isRunning /\ scheduler.callback = SeqCallback
            /\ scheduler.intervalId \in timers)
  /\ transportState.status \in {"stopped", "paused"} => ~scheduler.isRunning

\* Paused after a run: the Scheduler is idle with no timer left
C33_Witness ==
  /\ transportState.status = "paused"
  /\ ~scheduler.isRunning
  /\ timers = {}
  /\ now > 0

\* C34: with a Pattern loaded the cursor is a step of it,
\* 0 <= currentStep < pattern.length, also after setPattern swapped in a
\* shorter Pattern while Playing or Paused.
C34_CursorWithinPattern ==
  HasPattern => (0 <= currentStep /\ currentStep < pattern[1].length)

\* The 2-step Pattern is held while Playing, at a time by which the
\* 16-step or 3-step Pattern would have had the cursor at step 2 or later
C34_Witness ==
  /\ HasPattern
  /\ pattern[1].length = 2
  /\ transportState.status = "playing"
  /\ scheduler.currentBeat > (3 * BeatScale) \div STEPS_PER_BEAT
  /\ currentStep = 1

\* ------------------------------------------------------ at-most-once ticks
\* C35: within one Scheduler run a tick (scheduledTime, beat) reaches the
\* handler at most once: no tick that one poll delivered is delivered again
\* by the next poll of the same run, also when the handler threw.
C35_TickDeliveredAtMostOnce ==
  [][(/\ scheduler.isRunning
      /\ scheduler'.isRunning
      /\ run'.t0 = run.t0
      /\ lastCall' = NoCall)
     => \A i \in DOMAIN ticks, j \in DOMAIN ticks' :
          <<ticks'[j].time, ticks'[j].beat>> # <<ticks[i].time, ticks[i].beat>>]_vars

\* ------------------------------------------------------ stop from a handler
\* The invocation logged as r called scheduler.stop()
Stopped_By(r) == r.beat > 0

\* C36: when the handler calls scheduler.stop() during a poll, that
\* invocation is the last of the poll and the Scheduler is left stopped: not
\* running, no timer, currentBeat = 0 and nextNoteTime = 0.
C36_StopFromHandlerEndsPoll ==
  [][(/\ scheduler.isRunning
      /\ scheduler.callback = StoppingHandler
      /\ lastCall' = NoCall
      /\ \E i \in DOMAIN ticks' : Stopped_By(ticks'[i]))
     => /\ Stopped_By(ticks'[Len(ticks')])
        /\ \A i \in 1..(Len(ticks') - 1) : ~Stopped_By(ticks'[i])
        /\ ~scheduler'.isRunning
        /\ scheduler'.intervalId \notin timers'
        /\ scheduler'.currentBeat = 0
        /\ scheduler'.nextNoteTime = 0]_vars

\* ------------------------------------------------------------ termination
\* The least integer not below x / y, for y > 0
Ceil(x, y) == -((-x) \div y)

\* C37: a poll pass returns after finitely many handler invocations: at a
\* tempo within [60, 200] their number is at most
\* ceil((now + lookahead - nextNoteTime) / (60 / (4 * tempo))), with
\* nextNoteTime as the pass found it (the time of its first tick).
C37_PollInvocationsBounded ==
  (ticks # <<>> /\ scheduler.bpm \in MIN_BPM..MAX_BPM)
    => Len(ticks) <= Ceil((now + LOOKAHEAD_TIME - ticks[1].time) * 4 * scheduler.bpm,
                          60 * UnitsPerSecond)

\* A late poll delivered four ticks, as many as the bound allows
C37_Witness ==
  /\ Len(ticks) = 4
  /\ scheduler.bpm \in MIN_BPM..MAX_BPM
  /\ Len(ticks) = Ceil((now + LOOKAHEAD_TIME - ticks[1].time) * 4 * scheduler.bpm,
                       60 * UnitsPerSecond)

\* ------------------------------------------------------- lookahead horizon
\* C38: every voice trigger is issued by a poll at clock time t with
\* startTime < t + lookahead and is computed from the Sequencer as it is at
\* t: it is issued only while Playing, for a track of the Pattern held at t
\* that is not muted there.  Hence a stop, pause, mute or other edit at
\* time e leaves no trigger issued earlier with startTime >= e + lookahead,
\* and every trigger with startTime >= e + lookahead is issued after it.
C38_TriggersWithinLookahead ==
  \A i \in DOMAIN ticks :
    /\ ticks[i].at = now
    /\ ticks[i].time < now + LOOKAHEAD_TIME
    /\ \A j \in DOMAIN ticks[i].voices :
         /\ ticks[i].voices[j].startTime = ticks[i].time
         /\ transportState.status = "playing"
         /\ ticks[i].pattern = pattern
         /\ \E k \in DOMAIN pattern[1].tracks :
              /\ pattern[1].tracks[k].sampleId = ticks[i].voices[j].sampleId
              /\ ~pattern[1].tracks[k].muted

\* After a mute edit a poll issued a trigger for a time ahead of the clock,
\* at the last clock step inside the lookahead window
C38_Witness ==
  /\ edits = 1
  /\ HasPattern
  /\ pattern[1].modifiedAt = 1
  /\ \E k \in DOMAIN pattern[1].tracks : pattern[1].tracks[k].muted
  /\ \E i \in DOMAIN ticks :
       /\ ticks[i].voices # <<>>
       /\ ticks[i].time < now + LOOKAHEAD_TIME
       /\ ticks[i].time + ClockStep >= now + LOOKAHEAD_TIME

\* ------------------------------------------------------------ SampleManager
\* A load(id) is between its call and its settlement
InFlight(id) == \E l \in sm.loads : l.id = id

\* C31: from the moment a load(id) has resolved until remove(id) or clear(),
\* the cached sample is the one that load resolved with, a load(id) call
\* returns it without issuing a fetch, and getStatus(id) is loaded exactly
\* when has(id).
C31_LoadedSampleIsCached ==
  /\ [](\A id \in SampleIdInputs :
          sm.resolved[id] # 0 =>
            /\ sm.samples[id] = sm.resolved[id]
            /\ (getStatus(id).status = "loaded") <=> has(id))
  /\ [][\A id \in SampleIdInputs, url \in UrlInputs :
          (sm.resolved[id] # 0 /\ LoadCall(id, url))
            => /\ sm'.last = Outcome("load", id, "cached", sm.resolved[id])
               /\ sm'.started = sm.started]_vars

\* C39: a load(id) called while an earlier load(id) is in flight rejects with
\* 'already loading', issues no fetch and leaves the status (loading), the
\* cache and the earlier load as they are; the earlier load ends by caching
\* its sample (loaded) or in error; after an error a new load(id) starts and
\* fetches again.
C39_OverlappingLoadRejected ==
  [][\A id \in SampleIdInputs, url \in UrlInputs :
       /\ (InFlight(id) /\ LoadCall(id, url))
            => /\ sm'.last = Outcome("load", id, "alreadyLoading", 0)
               /\ getStatus(id).status = "loading"
               /\ sm'.status = sm.status
               /\ sm'.samples = sm.samples
               /\ sm'.loads = sm.loads
               /\ sm'.started = sm.started
       /\ (getStatus(id).status = "error" /\ ~has(id) /\ LoadCall(id, url))
            => /\ sm'.last = Outcome("load", id, "started", 0)
               /\ sm'.started = sm.started + 1
               /\ sm'.status[id] = Loading(0)]_vars

\* C40: from remove(id) or clear() until a load(id) is started afterwards,
\* has(id) is false and getStatus(id) is idle, also when a load(id) started
\* before the removal settles in between.
C40_RemovedStaysRemoved ==
  \A id \in SampleIdInputs :
    sm.removed[id] => (~has(id) /\ getStatus(id) = Idle)

====
